---- MODULE Spec2Model ----
(***************************************************************************)
(* Model of the gas-invoice entity layer: the customer and invoice         *)
(* repositories over spreadsheet sheets, the customer and invoice          *)
(* services on top of them, and the error classification / retry helper.   *)
(*                                                                         *)
(* Strings are tuples of one-character strings, so that formatting         *)
(* (toString, padStart, template concatenation) and parsing (regular       *)
(* expressions, parseInt) are computed and not assumed.  A Date is the     *)
(* number of clock ticks since the start of the run; one tick is one       *)
(* calendar month.  A sheet is the sequence of its data rows (the header   *)
(* row of the sheet is left out; row i of the model is sheet row i + 1).   *)
(*                                                                         *)
(* A number is an integer, except for a unit price and the two amounts     *)
(* derived from it by subtraction (subtotal, taxAmount), which may lie a   *)
(* half above an integer: the field holds the integer below the number     *)
(* and the field half of the same record holds 1 when the number is that   *)
(* integer plus 1/2, 0 when it is the integer.                             *)
(***************************************************************************)
EXTENDS Integers, Sequences, FiniteSets, TLC

\* ------------------------------------------------------------------ bounds
MaxNow == 1
MaxCalls == 3

\* ------------------------------------------------------- program constants
MAX_RETRIES == 3
RETRY_DELAY == 1000
MaxUnitPrice == 99999999
MaxAdvertiserLen == 200
MaxSubjectLen == 300
MaxNotesLen == 1000
MaxCompanyNameLen == 100
MaxContactPersonLen == 50
TAX_RATE_PERCENT == 10

\* ErrorCode (the values of the enum)
SYSTEM_ERROR == "SYS001"
TIMEOUT_ERROR == "SYS003"
DATA_INVALID == "DATA003"
SPREADSHEET_ACCESS_ERROR == "SS001"
SPREADSHEET_PERMISSION_ERROR == "SS002"
CUSTOMER_NOT_FOUND == "CUST001"
CUSTOMER_DUPLICATE == "CUST002"
INVOICE_NOT_FOUND == "INV001"
INVOICE_DUPLICATE == "INV002"
INVOICE_STATUS_ERROR == "INV004"
DRIVE_ACCESS_ERROR == "DRIVE001"
DRIVE_PERMISSION_ERROR == "DRIVE002"
OK == "OK"

\* InvoiceStatus (the values of the enum)
DRAFT == "draft"
ISSUED == "issued"
CANCELLED == "cancelled"
InvoiceStatus == {DRAFT, ISSUED, CANCELLED}

\* ----------------------------------------------------------------- strings
Digits == <<"0", "1", "2", "3", "4", "5", "6", "7", "8", "9">>
LowerLetters == <<"a", "b", "c", "d", "e", "f", "g", "h", "i", "j", "k", "l", "m",
                  "n", "o", "p", "q", "r", "s", "t", "u", "v", "w", "x", "y", "z">>
UpperLetters == <<"A", "B", "C", "D", "E", "F", "G", "H", "I", "J", "K", "L", "M",
                  "N", "O", "P", "Q", "R", "S", "T", "U", "V", "W", "X", "Y", "Z">>

Range(s) == {s[i] : i \in DOMAIN s}
IsDigit(c) == c \in Range(Digits)
IsLetter(c) == c \in Range(LowerLetters) \cup Range(UpperLetters)
DigitVal(c) == CHOOSE d \in 0..9 : Digits[d + 1] = c

\* JavaScript undefined, kept apart from every string (whose elements are
\* single characters) and comparable with them.
Undefined == <<"undefined">>
EmptyStr == <<>>
Null == [null |-> TRUE]

\* Number.prototype.toString() of a non-negative integer
RECURSIVE NumToStr(_)
NumToStr(n) ==
  IF n < 10 THEN <<Digits[n + 1]>>
  ELSE NumToStr(n \div 10) \o <<Digits[(n % 10) + 1]>>

\* String.prototype.padStart(w, c)
RECURSIVE PadStart(_, _, _)
PadStart(s, w, c) == IF Len(s) >= w THEN s ELSE PadStart(<<c>> \o s, w, c)

\* parseInt(s, 10) of a string of digits
RECURSIVE ParseInt(_)
ParseInt(s) ==
  IF Len(s) = 0 THEN 0
  ELSE 10 * ParseInt(SubSeq(s, 1, Len(s) - 1)) + DigitVal(s[Len(s)])

\* String.prototype.toLowerCase()
LowerChar(c) ==
  IF \E i \in 1..26 : UpperLetters[i] = c
  THEN LowerLetters[CHOOSE i \in 1..26 : UpperLetters[i] = c]
  ELSE c
ToLowerCase(s) == [i \in 1..Len(s) |-> LowerChar(s[i])]

\* String.prototype.includes(t)
Includes(s, t) ==
  \E k \in 0..(Len(s) - Len(t)) : \A i \in 1..Len(t) : s[k + i] = t[i]

\* !s?.trim() : undefined, empty or made of white space only
IsBlank(s) == s = Undefined \/ \A i \in 1..Len(s) : s[i] = " "

\* a string of n copies of character c
Repeat(c, n) == [i \in 1..n |-> c]

\* ------------------------------------------------------------------- dates
\* The run starts in December 2025, so that the clock crosses a year end.
EpochMonths == 2025 * 12 + 11
GetFullYear(t) == (EpochMonths + t) \div 12
GetMonth(t) == (EpochMonths + t) % 12

\* ------------------------------------------------- error classification
\* AppError: the fields that decide control flow and reach the caller.
\* CustomerError, InvoiceError and ValidationError are never retryable.
AppError(code, context, isRetryable) ==
  [code |-> code, context |-> context, isRetryable |-> isRetryable]
CustomerError(code, context) == AppError(code, context, FALSE)
InvoiceError(code, context) == AppError(code, context, FALSE)
NoContext == "(none)"
ValidationError(field) == AppError(DATA_INVALID, NoContext, FALSE)
NoError == AppError(OK, NoContext, FALSE)

\* The words convertToAppError looks for, as strings.
WSpreadsheet == <<"S", "p", "r", "e", "a", "d", "s", "h", "e", "e", "t">>
WPermission == <<"p", "e", "r", "m", "i", "s", "s", "i", "o", "n">>
WDrive == <<"D", "r", "i", "v", "e">>
WTimeout == <<"t", "i", "m", "e", "o", "u", "t">>

\* Thrown values: an AppError instance, an Error with a message, or any
\* other value (a string, an object).
ThrownApp(e) == [kind |-> "AppError", err |-> e, message |-> EmptyStr]
ThrownError(msg) == [kind |-> "Error", err |-> NoError, message |-> msg]
ThrownOther == [kind |-> "other", err |-> NoError, message |-> EmptyStr]
NotThrown == [kind |-> "none", err |-> NoError, message |-> EmptyStr]

ConvertToAppError(error, context) ==
  IF Includes(error.message, WSpreadsheet)
  THEN IF Includes(error.message, WPermission)
       THEN AppError(SPREADSHEET_PERMISSION_ERROR, context, FALSE)
       ELSE AppError(SPREADSHEET_ACCESS_ERROR, context, TRUE)
  ELSE IF Includes(error.message, WDrive)
  THEN AppError(DRIVE_ACCESS_ERROR, context, TRUE)
  ELSE IF Includes(error.message, WTimeout)
  THEN AppError(TIMEOUT_ERROR, context, TRUE)
  ELSE AppError(SYSTEM_ERROR, context, FALSE)

Handle_NoPassThrough(error, context) ==
  IF error.kind = "Error" THEN ConvertToAppError(error, context)
  ELSE AppError(SYSTEM_ERROR, context, FALSE)
Handle(error, context) ==
  IF error.kind = "AppError" THEN error.err
  ELSE IF error.kind = "Error" THEN ConvertToAppError(error, context)
  ELSE AppError(SYSTEM_ERROR, context, FALSE)

\* ------------------------------------------------------------------- state
VARIABLES
  customerSheet,   \* data rows of the customer sheet
  invoiceSheet,    \* data rows of the invoice (header) sheet
  detailSheet,     \* data rows of the invoice detail (line item) sheet
  now,             \* the clock: new Date()
  ret,             \* the call that ran last and its outcome
  nCalls,          \* service calls made so far
  rpc,             \* withRetry: position ("idle", "call", "delay", "done")
  attempt,         \* withRetry: the loop variable
  maxRetries,      \* withRetry: the parameter
  calls,           \* withRetry: invocations of fn by the running call
  slept,           \* withRetry: milliseconds slept by the running call
  raised,          \* withRetry: what fn threw last
  lastError,       \* withRetry: the classified error
  outcome,         \* withRetry: "none", "returned" or "thrown", and the error
  procs            \* the calls that run side by side: where each one is and
                   \* what it holds in its local variables

storeVars == <<customerSheet, invoiceSheet, detailSheet, now, ret, nCalls>>
retryVars == <<rpc, attempt, maxRetries, calls, slept, raised, lastError, outcome>>
\* what a call that runs alone from start to end leaves as it is
callVars == <<retryVars, procs>>
vars == <<customerSheet, invoiceSheet, detailSheet, now, ret, nCalls,
          rpc, attempt, maxRetries, calls, slept, raised, lastError, outcome,
          procs>>
\* no call runs side by side with another
NoProcs == <<>>

\* ------------------------------------------------------------- withRetry
RetryContext == "Repository.operation"

\* What the wrapped operation may throw: typed errors of the repositories and
\* services, Error objects whose message holds any combination of the words
\* the classification looks for, and a value that is no Error.
MessageOf(words) ==
  <<"e", "r", "r", ":">>
  \o (IF "Spreadsheet" \in words THEN <<" ">> \o WSpreadsheet ELSE EmptyStr)
  \o (IF "Drive" \in words THEN <<" ">> \o WDrive ELSE EmptyStr)
  \o (IF "permission" \in words THEN <<" ">> \o WPermission ELSE EmptyStr)
  \o (IF "timeout" \in words THEN <<" ">> \o WTimeout ELSE EmptyStr)
RawErrors ==
  {ThrownError(MessageOf(w)) :
     w \in SUBSET {"Spreadsheet", "Drive", "permission", "timeout"}}
TypedErrors ==
  {ThrownApp(ValidationError("field")),
   ThrownApp(CustomerError(CUSTOMER_NOT_FOUND, "CustomerRepository.update")),
   ThrownApp(CustomerError(CUSTOMER_DUPLICATE, "CustomerRepository.create")),
   ThrownApp(InvoiceError(INVOICE_NOT_FOUND, "InvoiceRepository.update")),
   ThrownApp(InvoiceError(INVOICE_DUPLICATE, "InvoiceRepository.create")),
   ThrownApp(InvoiceError(INVOICE_STATUS_ERROR, "InvoiceService.issueInvoice")),
   ThrownApp(AppError(SPREADSHEET_ACCESS_ERROR, "InvoiceRepository", TRUE)),
   ThrownApp(AppError(SPREADSHEET_PERMISSION_ERROR, "InvoiceRepository", FALSE))}
Throwables == RawErrors \cup TypedErrors \cup {ThrownOther}

RetryInit ==
  /\ rpc = "idle"
  /\ attempt = 0
  /\ maxRetries = MAX_RETRIES
  /\ calls = 0
  /\ slept = 0
  /\ raised = NotThrown
  /\ lastError = NoError
  /\ outcome = [kind |-> "none", error |-> NoError]

\* if (!lastError.isRetryable || attempt === maxRetries) throw lastError
GivesUp_NoLimit(err, att, maxR) == ~err.isRetryable
GivesUp_RetryAll(err, att, maxR) == att = maxR
GivesUp(err, att, maxR) == ~err.isRetryable \/ att = maxR

\* this.RETRY_DELAY * (attempt + 1)
DelayMs(att) == RETRY_DELAY * (att + 1)

\* A call of withRetry(fn, context, m) enters the loop with attempt = 0.
WithRetryStart(m) ==
  /\ rpc \in {"idle", "done"}
  /\ rpc' = "call"
  /\ attempt' = 0
  /\ maxRetries' = m
  /\ calls' = 0
  /\ slept' = 0
  /\ raised' = NotThrown
  /\ lastError' = NoError
  /\ outcome' = [kind |-> "none", error |-> NoError]
  /\ UNCHANGED <<storeVars, procs>>

\* await fn() returns: the result is returned.
FnReturns ==
  /\ rpc = "call"
  /\ calls' = calls + 1
  /\ rpc' = "done"
  /\ outcome' = [kind |-> "returned", error |-> NoError]
  /\ UNCHANGED <<attempt, maxRetries, slept, raised, lastError>>
  /\ UNCHANGED <<storeVars, procs>>

\* await fn() throws e: the catch block classifies it and gives up or goes on.
FnThrows(e) ==
  /\ rpc = "call"
  /\ calls' = calls + 1
  /\ raised' = e
  /\ lastError' = Handle(e, RetryContext)
  /\ IF GivesUp(lastError', attempt, maxRetries)
     THEN /\ rpc' = "done"
          /\ outcome' = [kind |-> "thrown", error |-> lastError']
     ELSE /\ rpc' = "delay"
          /\ UNCHANGED outcome
  /\ UNCHANGED <<attempt, maxRetries, slept>>
  /\ UNCHANGED <<storeVars, procs>>

\* await this.delay(...), then the next iteration of the loop.
RetryDelay ==
  /\ rpc = "delay"
  /\ slept' = slept + DelayMs(attempt)
  /\ attempt' = attempt + 1
  /\ rpc' = "call"
  /\ UNCHANGED <<maxRetries, calls, raised, lastError, outcome>>
  /\ UNCHANGED <<storeVars, procs>>

RetryStep == FnReturns \/ (\E e \in Throwables : FnThrows(e)) \/ RetryDelay

\* ------------------------------------------------------- sheet primitives
\* x || '' and x || undefined on a string cell or field
OrEmpty(x) == IF x = Undefined \/ x = EmptyStr THEN EmptyStr ELSE x
OrUndefined(x) == IF x = Undefined \/ x = EmptyStr THEN Undefined ELSE x

\* sheet.getRange(getLastRow() + 1, ...).setValues([values])
AppendRow(sheet, row) == Append(sheet, row)
\* sheet.getRange(i + 1, ...).setValues([values]) on data row i
SetRow(sheet, i, row) == [sheet EXCEPT ![i] = row]
\* sheet.deleteRow(i + 1) on data row i: the rows below move up
DeleteRow(sheet, i) == SubSeq(sheet, 1, i - 1) \o SubSeq(sheet, i + 1, Len(sheet))

\* the first data row satisfying a test, 0 when there is none
FirstIndex(sheet, Test(_)) ==
  IF \E i \in 1..Len(sheet) : Test(sheet[i])
  THEN CHOOSE i \in 1..Len(sheet) :
         Test(sheet[i]) /\ \A j \in 1..(i - 1) : ~Test(sheet[j])
  ELSE 0

Max(S) == CHOOSE x \in S : \A y \in S : y <= x

\* ---------------------------------------------------- CustomerRepository
CustomerToRowData(customer) ==
  [customerId |-> customer.customerId,
   companyName |-> customer.companyName,
   contactPerson |-> OrEmpty(customer.contactPerson),
   postalCode |-> OrEmpty(customer.postalCode),
   address |-> OrEmpty(customer.address),
   email |-> OrEmpty(customer.email),
   phoneNumber |-> OrEmpty(customer.phoneNumber),
   registeredAt |-> customer.registeredAt,
   updatedAt |-> customer.updatedAt]

RowDataToCustomer(row) ==
  [customerId |-> OrEmpty(row.customerId),
   companyName |-> OrEmpty(row.companyName),
   contactPerson |-> OrUndefined(row.contactPerson),
   postalCode |-> OrUndefined(row.postalCode),
   address |-> OrUndefined(row.address),
   email |-> OrUndefined(row.email),
   phoneNumber |-> OrUndefined(row.phoneNumber),
   registeredAt |-> row.registeredAt,
   updatedAt |-> row.updatedAt]

\* customerId.match(/^C(\d{5})$/)
MatchesCustomerId(s) ==
  /\ Len(s) = 6
  /\ s[1] = "C"
  /\ \A i \in 2..6 : IsDigit(s[i])

\* `C${nextNumber.toString().padStart(5, '0')}`
FormatCustomerId(n) == <<"C">> \o PadStart(NumToStr(n), 5, "0")

GenerateCustomerId_Count(sheet) == FormatCustomerId(Len(sheet) + 1)
GenerateCustomerId(sheet) ==
  LET numbers == {ParseInt(SubSeq(sheet[i].customerId, 2, 6)) :
                    i \in {j \in 1..Len(sheet) : MatchesCustomerId(sheet[j].customerId)}}
      maxNumber == Max(numbers \cup {0})
  IN  FormatCustomerId(maxNumber + 1)

CustomerFindById(sheet, customerId) ==
  LET Test(row) == row.customerId = customerId
      i == FirstIndex(sheet, Test)
  IN  IF i = 0 THEN Null ELSE RowDataToCustomer(sheet[i])

\* row[1] && row[1].toString().toLowerCase().includes(companyName.toLowerCase())
FindByCompanyName(sheet, companyName) ==
  LET Test(row) == /\ row.companyName # EmptyStr
                   /\ Includes(ToLowerCase(row.companyName), ToLowerCase(companyName))
      i == FirstIndex(sheet, Test)
  IN  IF i = 0 THEN Null ELSE RowDataToCustomer(sheet[i])

\* The result of a call: the error code (OK when it returns), the returned
\* value, and the sheet as the call leaves it.
CustomerRepoCreate(sheet, request, t) ==
  LET customerId == GenerateCustomerId(sheet)
      customer == [customerId |-> customerId,
                   companyName |-> request.companyName,
                   contactPerson |-> request.contactPerson,
                   postalCode |-> request.postalCode,
                   address |-> request.address,
                   email |-> request.email,
                   phoneNumber |-> request.phoneNumber,
                   registeredAt |-> t,
                   updatedAt |-> t]
  IN  IF FindByCompanyName(sheet, request.companyName) # Null
      THEN [code |-> CUSTOMER_DUPLICATE, value |-> Null, sheet |-> sheet]
      ELSE [code |-> OK, value |-> customer,
            sheet |-> AppendRow(sheet, CustomerToRowData(customer))]

\* { ...existingCustomer, ...request, customerId, updatedAt: new Date() }
CustomerRepoUpdate(sheet, customerId, request, t) ==
  LET Test(row) == row.customerId = customerId
      i == FirstIndex(sheet, Test)
      existing == RowDataToCustomer(sheet[i])
      updated == [f \in DOMAIN existing |->
                    IF f = "customerId" THEN customerId
                    ELSE IF f = "updatedAt" THEN t
                    ELSE IF f \in DOMAIN request THEN request[f]
                    ELSE existing[f]]
  IN  IF i = 0
      THEN [code |-> CUSTOMER_NOT_FOUND, value |-> Null, sheet |-> sheet]
      ELSE [code |-> OK, value |-> updated,
            sheet |-> SetRow(sheet, i, CustomerToRowData(updated))]

CustomerRepoDelete(sheet, customerId) ==
  LET Test(row) == row.customerId = customerId
      i == FirstIndex(sheet, Test)
  IN  IF i = 0
      THEN [code |-> CUSTOMER_NOT_FOUND, value |-> Null, sheet |-> sheet]
      ELSE [code |-> OK, value |-> Null, sheet |-> DeleteRow(sheet, i)]

\* ------------------------------------------------------- CustomerService
Truthy(s) == s # Undefined /\ s # EmptyStr
AllIn(s, lo, hi, Class(_)) == \A i \in lo..hi : Class(s[i])

\* /^[a-zA-Z0-9._%+-]+@[a-zA-Z0-9.-]+\.[a-zA-Z]{2,}$/
IsLocalChar(c) == IsLetter(c) \/ IsDigit(c) \/ c \in {".", "_", "%", "+", "-"}
IsDomainChar(c) == IsLetter(c) \/ IsDigit(c) \/ c \in {".", "-"}
IsValidEmail(email) ==
  \E a \in 2..Len(email) : \E d \in (a + 2)..(Len(email) - 2) :
    /\ email[a] = "@"
    /\ email[d] = "."
    /\ AllIn(email, 1, a - 1, IsLocalChar)
    /\ AllIn(email, a + 1, d - 1, IsDomainChar)
    /\ AllIn(email, d + 1, Len(email), IsLetter)

\* /^\d{3}-\d{4}$/
IsValidPostalCode(postalCode) ==
  /\ Len(postalCode) = 8
  /\ AllIn(postalCode, 1, 3, IsDigit)
  /\ postalCode[4] = "-"
  /\ AllIn(postalCode, 5, 8, IsDigit)

\* /^0\d{1,4}-\d{1,4}-\d{3,4}$/
IsValidPhoneNumber(phoneNumber) ==
  \E h \in 3..Len(phoneNumber) : \E k \in (h + 2)..Len(phoneNumber) :
    /\ phoneNumber[1] = "0"
    /\ phoneNumber[h] = "-"
    /\ phoneNumber[k] = "-"
    /\ h - 2 \in 1..4
    /\ k - h - 1 \in 1..4
    /\ Len(phoneNumber) - k \in 3..4
    /\ AllIn(phoneNumber, 2, h - 1, IsDigit)
    /\ AllIn(phoneNumber, h + 1, k - 1, IsDigit)
    /\ AllIn(phoneNumber, k + 1, Len(phoneNumber), IsDigit)

\* TRUE when validateCreateRequest throws its ValidationError
CustomerCreateRequestInvalid(request) ==
  \/ IsBlank(request.companyName)
  \/ Len(request.companyName) > MaxCompanyNameLen
  \/ (Truthy(request.contactPerson) /\ Len(request.contactPerson) > MaxContactPersonLen)
  \/ (Truthy(request.email) /\ ~IsValidEmail(request.email))
  \/ (Truthy(request.postalCode) /\ ~IsValidPostalCode(request.postalCode))
  \/ (Truthy(request.phoneNumber) /\ ~IsValidPhoneNumber(request.phoneNumber))

ServiceCreateCustomer(sheet, request, t) ==
  IF CustomerCreateRequestInvalid(request)
  THEN [code |-> DATA_INVALID, value |-> Null, sheet |-> sheet]
  ELSE IF FindByCompanyName(sheet, request.companyName) # Null
  THEN [code |-> CUSTOMER_DUPLICATE, value |-> Null, sheet |-> sheet]
  ELSE CustomerRepoCreate(sheet, request, t)

ServiceGetCustomer(sheet, customerId) ==
  IF customerId = EmptyStr \/ customerId = Undefined
  THEN [code |-> DATA_INVALID, value |-> Null]
  ELSE IF CustomerFindById(sheet, customerId) = Null
  THEN [code |-> CUSTOMER_NOT_FOUND, value |-> Null]
  ELSE [code |-> OK, value |-> CustomerFindById(sheet, customerId)]

ServiceDeleteCustomer(sheet, customerId) ==
  IF ServiceGetCustomer(sheet, customerId).code # OK
  THEN [code |-> ServiceGetCustomer(sheet, customerId).code, value |-> Null,
        sheet |-> sheet]
  ELSE CustomerRepoDelete(sheet, customerId)

\* TRUE when validateUpdateRequest throws its ValidationError; a field the
\* patch does not carry is undefined
CustomerUpdateRequestInvalid(request) ==
  LET Field(f) == IF f \in DOMAIN request THEN request[f] ELSE Undefined
  IN  \/ /\ Field("companyName") # Undefined
         /\ \/ IsBlank(Field("companyName"))
            \/ Len(Field("companyName")) > MaxCompanyNameLen
      \/ (Truthy(Field("contactPerson"))
            /\ Len(Field("contactPerson")) > MaxContactPersonLen)
      \/ (Truthy(Field("email")) /\ ~IsValidEmail(Field("email")))
      \/ (Truthy(Field("postalCode")) /\ ~IsValidPostalCode(Field("postalCode")))
      \/ (Truthy(Field("phoneNumber")) /\ ~IsValidPhoneNumber(Field("phoneNumber")))

\* if (existing && existing.customerId !== customerId) throw ...
NameTakenByOther(sheet, customerId, request) ==
  /\ "companyName" \in DOMAIN request
  /\ Truthy(request.companyName)
  /\ FindByCompanyName(sheet, request.companyName) # Null
  /\ FindByCompanyName(sheet, request.companyName).customerId # customerId

ServiceUpdateCustomer_WriteFirst(sheet, customerId, request, t) ==
  IF ServiceGetCustomer(sheet, customerId).code # OK
  THEN [code |-> ServiceGetCustomer(sheet, customerId).code, value |-> Null,
        sheet |-> sheet]
  ELSE IF CustomerUpdateRequestInvalid(request)
  THEN [code |-> DATA_INVALID, value |-> Null,
        sheet |-> CustomerRepoUpdate(sheet, customerId, request, t).sheet]
  ELSE IF NameTakenByOther(sheet, customerId, request)
  THEN [code |-> CUSTOMER_DUPLICATE, value |-> Null,
        sheet |-> CustomerRepoUpdate(sheet, customerId, request, t).sheet]
  ELSE CustomerRepoUpdate(sheet, customerId, request, t)
ServiceUpdateCustomer(sheet, customerId, request, t) ==
  IF customerId = EmptyStr \/ customerId = Undefined
  THEN [code |-> DATA_INVALID, value |-> Null, sheet |-> sheet]
  ELSE IF CustomerUpdateRequestInvalid(request)
  THEN [code |-> DATA_INVALID, value |-> Null, sheet |-> sheet]
  ELSE IF ServiceGetCustomer(sheet, customerId).code # OK
  THEN [code |-> ServiceGetCustomer(sheet, customerId).code, value |-> Null,
        sheet |-> sheet]
  ELSE IF NameTakenByOther(sheet, customerId, request)
  THEN [code |-> CUSTOMER_DUPLICATE, value |-> Null, sheet |-> sheet]
  ELSE CustomerRepoUpdate(sheet, customerId, request, t)

\* ----------------------------------------------------- InvoiceRepository
InvoiceToRowData(invoice) ==
  [invoiceNumber |-> invoice.invoiceNumber,
   issueDate |-> invoice.issueDate,
   customerId |-> invoice.customerId,
   advertiser |-> invoice.advertiser,
   subject |-> invoice.subject,
   subtotal |-> invoice.subtotal,
   taxAmount |-> invoice.taxAmount,
   totalAmount |-> invoice.totalAmount,
   notes |-> OrEmpty(invoice.notes),
   half |-> invoice.half,
   status |-> invoice.status,
   pdfUrl |-> OrEmpty(invoice.pdfUrl),
   createdAt |-> invoice.createdAt,
   updatedAt |-> invoice.updatedAt]

\* items are read separately (getInvoiceItems)
RowDataToInvoice(row) ==
  [invoiceNumber |-> OrEmpty(row.invoiceNumber),
   issueDate |-> row.issueDate,
   customerId |-> OrEmpty(row.customerId),
   advertiser |-> OrEmpty(row.advertiser),
   subject |-> OrEmpty(row.subject),
   items |-> <<>>,
   subtotal |-> row.subtotal,
   taxAmount |-> row.taxAmount,
   totalAmount |-> row.totalAmount,
   notes |-> OrUndefined(row.notes),
   half |-> row.half,
   status |-> IF row.status = "" THEN DRAFT ELSE row.status,
   pdfUrl |-> OrUndefined(row.pdfUrl),
   createdAt |-> row.createdAt,
   updatedAt |-> row.updatedAt]

ItemToRowData(item) ==
  [itemId |-> item.itemId,
   invoiceNumber |-> item.invoiceNumber,
   itemName |-> item.itemName,
   quantity |-> item.quantity,
   unit |-> item.unit,
   unitPrice |-> item.unitPrice,
   half |-> item.half,
   taxRate |-> item.taxRate,
   amount |-> item.amount]

\* Number(x) || d
NumberOr(x, d) == IF x = 0 THEN d ELSE x

RowDataToItem(row) ==
  [itemId |-> OrEmpty(row.itemId),
   invoiceNumber |-> OrEmpty(row.invoiceNumber),
   itemName |-> OrEmpty(row.itemName),
   quantity |-> NumberOr(row.quantity, 1),
   unit |-> OrEmpty(row.unit),
   unitPrice |-> NumberOr(row.unitPrice, 0),
   half |-> row.half,
   taxRate |-> NumberOr(row.taxRate, TAX_RATE_PERCENT),
   amount |-> NumberOr(row.amount, 0)]

\* `${now.getFullYear()}${(now.getMonth() + 1).toString().padStart(2, '0')}`
YearMonth(t) ==
  NumToStr(GetFullYear(t)) \o PadStart(NumToStr(GetMonth(t) + 1), 2, "0")

\* invoiceNumber.match(new RegExp(`^${yearMonth}-(\\d{3})$`))
MatchesInvoiceNumber(s, yearMonth) ==
  /\ Len(s) = Len(yearMonth) + 4
  /\ SubSeq(s, 1, Len(yearMonth)) = yearMonth
  /\ s[Len(yearMonth) + 1] = "-"
  /\ \A i \in (Len(yearMonth) + 2)..Len(s) : IsDigit(s[i])

\* `${yearMonth}-${nextNumber.toString().padStart(3, '0')}`
FormatInvoiceNumber(yearMonth, n) ==
  yearMonth \o <<"-">> \o PadStart(NumToStr(n), 3, "0")

GenerateInvoiceNumber_AllMonths(sheet, t) ==
  FormatInvoiceNumber(YearMonth(t), Len(sheet) + 1)
GenerateInvoiceNumber(sheet, t) ==
  LET yearMonth == YearMonth(t)
      matching == {j \in 1..Len(sheet) :
                     MatchesInvoiceNumber(sheet[j].invoiceNumber, yearMonth)}
      numbers == {ParseInt(SubSeq(sheet[i].invoiceNumber, Len(yearMonth) + 2,
                                  Len(sheet[i].invoiceNumber))) : i \in matching}
      maxNumber == Max(numbers \cup {0})
  IN  FormatInvoiceNumber(yearMonth, maxNumber + 1)

\* `${invoiceNumber}-001`
GenerateItemId(invoiceNumber) == invoiceNumber \o <<"-", "0", "0", "1">>

GetInvoiceItems(detail, invoiceNumber) ==
  LET Test(row) == row.invoiceNumber = invoiceNumber
      rows == SelectSeq(detail, Test)
  IN  [i \in 1..Len(rows) |-> RowDataToItem(rows[i])]

FindByNumber(sheet, detail, invoiceNumber) ==
  LET Test(row) == row.invoiceNumber = invoiceNumber
      i == FirstIndex(sheet, Test)
  IN  IF i = 0 THEN Null
      ELSE [RowDataToInvoice(sheet[i]) EXCEPT
              !.items = GetInvoiceItems(detail, invoiceNumber)]

\* Math.floor(unitPrice * (1 + taxRate)) in IEEE-754 double arithmetic.
\* 1 + 0.10 is the double 1.1 = (11 * 2^52 + 4) / (10 * 2^52), so the exact
\* product is x = q + r/10 + unitPrice / (5 * 2^51) with q and r the quotient
\* and remainder of 11 * unitPrice by 10.  x lies in [2^e, 2^(e+1)) with e the
\* position of the top bit of q, and round-to-nearest-even carries x up to
\* q + 1 exactly when x >= q + 1 - 2^(e-53), that is when
\* 4 * unitPrice + 5 * 2^e >= (10 - r) * 2^52.  Both sides are compared
\* after division by 2^26, which keeps every number within 32 bits for
\* unitPrice up to MaxUnitPrice.
RECURSIVE Log2Floor(_)
Log2Floor(n) == IF n < 2 THEN 0 ELSE 1 + Log2Floor(n \div 2)
FloorOfTaxedPrice_Ceil(unitPrice) == (11 * unitPrice + 9) \div 10
FloorOfTaxedPrice(unitPrice) ==
  LET q == (11 * unitPrice) \div 10
      r == (11 * unitPrice) % 10
      e == Log2Floor(q)
      roundsUp == (4 * unitPrice + 5 * 2^e) \div 2^26 >= (10 - r) * 2^26
  IN  IF roundsUp THEN q + 1 ELSE q

\* The same for a price of unitPrice + 1/2, which is a double.  The exact
\* product (2 * unitPrice + 1) * 11 / 20 lies at least 1/20 away from every
\* integer, much further than the rounding of the product can carry it.
FloorOfTaxedHalfPrice(unitPrice) == ((2 * unitPrice + 1) * 11) \div 20

\* The result of an invoice call: the error code (OK when it returns), the
\* returned value, and the two sheets as the call leaves them.
InvoiceResult(code, value, sheet, detail) ==
  [code |-> code, value |-> value, sheet |-> sheet, detail |-> detail]

InitialStatus_Issued == ISSUED
InitialStatus == DRAFT

\* const existingInvoice = await this.findByNumber(invoiceNumber);
\* if (existingInvoice) throw new InvoiceError(INVOICE_DUPLICATE, ...)
NumberTaken_Never(sheet, detail, invoiceNumber) == FALSE
NumberTaken(sheet, detail, invoiceNumber) ==
  FindByNumber(sheet, detail, invoiceNumber) # Null

InvoiceRepoCreate(sheet, detail, request, t) ==
  LET invoiceNumber == GenerateInvoiceNumber(sheet, t)
      amount == IF request.half = 0
                THEN FloorOfTaxedPrice(request.unitPrice)
                ELSE FloorOfTaxedHalfPrice(request.unitPrice)
      taxAmount == amount - request.unitPrice - request.half
      item == [itemId |-> GenerateItemId(invoiceNumber),
               invoiceNumber |-> invoiceNumber,
               itemName |-> <<"seisakuhi">>,
               quantity |-> 1,
               unit |-> <<"shiki">>,
               unitPrice |-> request.unitPrice,
               half |-> request.half,
               taxRate |-> TAX_RATE_PERCENT,
               amount |-> amount]
      invoice == [invoiceNumber |-> invoiceNumber,
                  issueDate |-> t,
                  customerId |-> request.customerId,
                  advertiser |-> request.advertiser,
                  subject |-> request.subject,
                  items |-> <<item>>,
                  subtotal |-> request.unitPrice,
                  taxAmount |-> taxAmount,
                  totalAmount |-> amount,
                  half |-> request.half,
                  notes |-> request.notes,
                  status |-> InitialStatus,
                  pdfUrl |-> Undefined,
                  createdAt |-> t,
                  updatedAt |-> t]
  IN  IF NumberTaken(sheet, detail, invoiceNumber)
      THEN InvoiceResult(INVOICE_DUPLICATE, Null, sheet, detail)
      ELSE InvoiceResult(OK, invoice,
                         AppendRow(sheet, InvoiceToRowData(invoice)),
                         AppendRow(detail, ItemToRowData(item)))

MergeInvoice_TouchesCreatedAt(existing, request, invoiceNumber, t) ==
  [f \in DOMAIN existing |->
     IF f = "invoiceNumber" THEN invoiceNumber
     ELSE IF f \in {"updatedAt", "createdAt"} THEN t
     ELSE IF f \in DOMAIN request THEN request[f]
     ELSE existing[f]]
\* { ...existingInvoice, ...request, invoiceNumber, updatedAt: new Date() }
MergeInvoice(existing, request, invoiceNumber, t) ==
  [f \in DOMAIN existing |->
     IF f = "invoiceNumber" THEN invoiceNumber
     ELSE IF f = "updatedAt" THEN t
     ELSE IF f \in DOMAIN request THEN request[f]
     ELSE existing[f]]

InvoiceRepoUpdate(sheet, detail, invoiceNumber, request, t) ==
  LET Test(row) == row.invoiceNumber = invoiceNumber
      i == FirstIndex(sheet, Test)
      existing == [RowDataToInvoice(sheet[i]) EXCEPT
                     !.items = GetInvoiceItems(detail, invoiceNumber)]
      updated == MergeInvoice(existing, request, invoiceNumber, t)
  IN  IF i = 0
      THEN InvoiceResult(INVOICE_NOT_FOUND, Null, sheet, detail)
      ELSE InvoiceResult(OK, updated,
                         SetRow(sheet, i, InvoiceToRowData(updated)), detail)

\* for (let i = data.length - 1; i >= 1; i--) if (row[1] === invoiceNumber)
\*   this.detailSheet.deleteRow(i + 1)
\* data is the snapshot read before the loop; i counts its data rows.
RECURSIVE DeleteItemsLoop(_, _, _, _)
DeleteItemsLoop(detail, data, i, invoiceNumber) ==
  IF i < 1 THEN detail
  ELSE DeleteItemsLoop(IF data[i].invoiceNumber = invoiceNumber
                       THEN DeleteRow(detail, i) ELSE detail,
                       data, i - 1, invoiceNumber)
DeleteInvoiceItems_None(detail, invoiceNumber) == detail
DeleteInvoiceItems_LastOnly(detail, invoiceNumber) ==
  LET matching == {i \in 1..Len(detail) : detail[i].invoiceNumber = invoiceNumber}
  IN  IF matching = {} THEN detail ELSE DeleteRow(detail, Max(matching))
DeleteInvoiceItems(detail, invoiceNumber) ==
  DeleteItemsLoop(detail, detail, Len(detail), invoiceNumber)

InvoiceRepoDelete(sheet, detail, invoiceNumber) ==
  LET Test(row) == row.invoiceNumber = invoiceNumber
      i == FirstIndex(sheet, Test)
      detailAfter == DeleteInvoiceItems(detail, invoiceNumber)
  IN  IF i = 0
      THEN InvoiceResult(INVOICE_NOT_FOUND, Null, sheet, detailAfter)
      ELSE InvoiceResult(OK, Null, DeleteRow(sheet, i), detailAfter)

\* -------------------------------------------------------- InvoiceService
\* TRUE when validateCreateRequest throws its ValidationError
InvoiceCreateRequestInvalid(request) ==
  \/ IsBlank(request.customerId)
  \/ IsBlank(request.advertiser)
  \/ Len(request.advertiser) > MaxAdvertiserLen
  \/ IsBlank(request.subject)
  \/ Len(request.subject) > MaxSubjectLen
  \/ 2 * request.unitPrice + request.half <= 0
  \/ 2 * request.unitPrice + request.half > 2 * MaxUnitPrice
  \/ (Truthy(request.notes) /\ Len(request.notes) > MaxNotesLen)

\* TRUE when validateUpdateRequest throws its ValidationError
InvoiceUpdateRequestInvalid(request) ==
  \/ /\ "advertiser" \in DOMAIN request
     /\ IsBlank(request.advertiser) \/ Len(request.advertiser) > MaxAdvertiserLen
  \/ /\ "subject" \in DOMAIN request
     /\ IsBlank(request.subject) \/ Len(request.subject) > MaxSubjectLen
  \/ /\ "notes" \in DOMAIN request
     /\ Truthy(request.notes)
     /\ Len(request.notes) > MaxNotesLen

\* validTransitions[currentStatus]
ValidTransitions_CancelledReopens(currentStatus) ==
  IF currentStatus = DRAFT THEN {ISSUED, CANCELLED}
  ELSE IF currentStatus = ISSUED THEN {CANCELLED}
  ELSE {DRAFT}
ValidTransitions(currentStatus) ==
  IF currentStatus = DRAFT THEN {ISSUED, CANCELLED}
  ELSE IF currentStatus = ISSUED THEN {CANCELLED}
  ELSE {}

ServiceGetInvoice(sheet, detail, invoiceNumber) ==
  IF invoiceNumber = EmptyStr \/ invoiceNumber = Undefined
  THEN [code |-> DATA_INVALID, value |-> Null]
  ELSE IF FindByNumber(sheet, detail, invoiceNumber) = Null
  THEN [code |-> INVOICE_NOT_FOUND, value |-> Null]
  ELSE [code |-> OK, value |-> FindByNumber(sheet, detail, invoiceNumber)]

ServiceCreateInvoice(customers, sheet, detail, request, t) ==
  IF InvoiceCreateRequestInvalid(request)
  THEN InvoiceResult(DATA_INVALID, Null, sheet, detail)
  ELSE IF CustomerFindById(customers, request.customerId) = Null
  THEN InvoiceResult(CUSTOMER_NOT_FOUND, Null, sheet, detail)
  ELSE InvoiceRepoCreate(sheet, detail, request, t)

ServiceUpdateInvoice(customers, sheet, detail, invoiceNumber, request, t) ==
  LET got == ServiceGetInvoice(sheet, detail, invoiceNumber)
      existing == got.value
  IN  IF invoiceNumber = EmptyStr \/ invoiceNumber = Undefined
      THEN InvoiceResult(DATA_INVALID, Null, sheet, detail)
      ELSE IF InvoiceUpdateRequestInvalid(request)
      THEN InvoiceResult(DATA_INVALID, Null, sheet, detail)
      ELSE IF got.code # OK
      THEN InvoiceResult(got.code, Null, sheet, detail)
      ELSE IF /\ "status" \in DOMAIN request
              /\ request.status # existing.status
              /\ request.status \notin ValidTransitions(existing.status)
      THEN InvoiceResult(INVOICE_STATUS_ERROR, Null, sheet, detail)
      ELSE IF /\ "customerId" \in DOMAIN request
              /\ Truthy(request.customerId)
              /\ request.customerId # existing.customerId
              /\ CustomerFindById(customers, request.customerId) = Null
      THEN InvoiceResult(CUSTOMER_NOT_FOUND, Null, sheet, detail)
      ELSE InvoiceRepoUpdate(sheet, detail, invoiceNumber, request, t)

\* if (invoice.status === InvoiceStatus.ISSUED) throw ...
DeleteBlocked_Never(status) == FALSE
DeleteBlocked(status) == status = ISSUED

ServiceDeleteInvoice(sheet, detail, invoiceNumber) ==
  LET got == ServiceGetInvoice(sheet, detail, invoiceNumber)
  IN  IF got.code # OK
      THEN InvoiceResult(got.code, Null, sheet, detail)
      ELSE IF DeleteBlocked(got.value.status)
      THEN InvoiceResult(INVOICE_STATUS_ERROR, Null, sheet, detail)
      ELSE InvoiceRepoDelete(sheet, detail, invoiceNumber)

\* if (invoice.status !== InvoiceStatus.DRAFT) throw ...
IssueBlocked_OnlyCancelled(status) == status = CANCELLED
IssueBlocked(status) == status # DRAFT

ServiceIssueInvoice(sheet, detail, invoiceNumber, t) ==
  LET got == ServiceGetInvoice(sheet, detail, invoiceNumber)
  IN  IF got.code # OK
      THEN InvoiceResult(got.code, Null, sheet, detail)
      ELSE IF IssueBlocked(got.value.status)
      THEN InvoiceResult(INVOICE_STATUS_ERROR, Null, sheet, detail)
      ELSE InvoiceRepoUpdate(sheet, detail, invoiceNumber,
                             [status |-> ISSUED, issueDate |-> t], t)

\* if (invoice.status === InvoiceStatus.CANCELLED) throw ...
CancelBlocked_Never(status) == FALSE
CancelBlocked(status) == status = CANCELLED

ServiceCancelInvoice(sheet, detail, invoiceNumber, t) ==
  LET got == ServiceGetInvoice(sheet, detail, invoiceNumber)
  IN  IF got.code # OK
      THEN InvoiceResult(got.code, Null, sheet, detail)
      ELSE IF CancelBlocked(got.value.status)
      THEN InvoiceResult(INVOICE_STATUS_ERROR, Null, sheet, detail)
      ELSE InvoiceRepoUpdate(sheet, detail, invoiceNumber,
                             [status |-> CANCELLED], t)

\* ------------------------------------------------------------------ inputs
Str2(a, b) == <<a, b>>
NameAb == Str2("A", "b")
NameLowerAb == Str2("a", "b")
NameB == <<"b">>
NameCd == Str2("C", "d")
NameCde == <<"C", "d", "e">>
NameUpperCd == Str2("C", "D")

CustomerRequest(name, contact, postal, email, phone) ==
  [companyName |-> name, contactPerson |-> contact, postalCode |-> postal,
   address |-> Undefined, email |-> email, phoneNumber |-> phone]
PlainCustomer(name) ==
  CustomerRequest(name, Undefined, Undefined, Undefined, Undefined)

ValidEmail == <<"a", "@", "b", ".", "j", "p">>
InvalidEmail == <<"a", "@", "b">>
ValidPostalCode == <<"1", "0", "0", "-", "0", "0", "0", "1">>
ValidPhoneNumber == <<"0", "3", "-", "1", "1", "-", "1", "1", "1">>

CustomerRequests ==
  {PlainCustomer(NameAb), PlainCustomer(NameLowerAb), PlainCustomer(NameB),
   CustomerRequest(NameCd, <<"T">>, ValidPostalCode, ValidEmail, ValidPhoneNumber),
   PlainCustomer(<<" ">>),
   PlainCustomer(Repeat("n", MaxCompanyNameLen + 1)),
   CustomerRequest(<<"E">>, Undefined, Undefined, InvalidEmail, Undefined)}

\* identifiers a caller may pass: those of the rows, one of no row, and ''
AbsentCustomerId == FormatCustomerId(77)
CustomerKeys(sheet) ==
  {sheet[i].customerId : i \in 1..Len(sheet)} \cup {AbsentCustomerId, EmptyStr}

AdvertiserX == <<"X">>
AdvertiserY == <<"Y">>
SubjectS == <<"S">>

InvoiceRequest(customerId, advertiser, unitPrice) ==
  [customerId |-> customerId, advertiser |-> advertiser, subject |-> SubjectS,
   unitPrice |-> unitPrice, half |-> 0, notes |-> Undefined]

AbsentInvoiceNumber(t) == FormatInvoiceNumber(YearMonth(t), 777)
InvoiceKeys(sheet, t) ==
  {sheet[i].invoiceNumber : i \in 1..Len(sheet)}
  \cup {AbsentInvoiceNumber(t), EmptyStr}

\* -------------------------------------------------- the sheets at the start
\* The repositories are constructed over the sheets as earlier runs left
\* them.  The customer sheet of the invoice runs holds two customers created
\* through the service; a seeded sheet holds one row whose sequence number
\* is the last one of its width, as left after that many creations and the
\* deletion of the earlier rows.
TwoCustomers ==
  ServiceCreateCustomer(
    ServiceCreateCustomer(<<>>, PlainCustomer(NameAb), 0).sheet,
    PlainCustomer(NameCd), 0).sheet
FirstCustomerId == FormatCustomerId(1)
SecondCustomerId == FormatCustomerId(2)

LastFiveDigitCustomer ==
  <<CustomerToRowData(
      [customerId |-> FormatCustomerId(99999), companyName |-> <<"Z">>,
       contactPerson |-> Undefined, postalCode |-> Undefined,
       address |-> Undefined, email |-> Undefined, phoneNumber |-> Undefined,
       registeredAt |-> 0, updatedAt |-> 0])>>

SeedInvoice ==
  LET made == InvoiceRepoCreate(<<>>, <<>>,
                                InvoiceRequest(FirstCustomerId, AdvertiserX, 1000), 0)
      number == FormatInvoiceNumber(YearMonth(0), 999)
      item == [made.value.items[1] EXCEPT
                 !.invoiceNumber = number, !.itemId = GenerateItemId(number)]
      invoice == [made.value EXCEPT !.invoiceNumber = number, !.items = <<item>>]
  IN  [sheet |-> <<InvoiceToRowData(invoice)>>, detail |-> <<ItemToRowData(item)>>]

\* what the caller of a service method sees: the error code of the typed
\* error it throws (OK when it returns) and the value it returns
NoCall == [op |-> "none", code |-> OK, value |-> Null]
Call(op, result) == [op |-> op, code |-> result.code, value |-> result.value]

InvoiceRequests ==
  {InvoiceRequest(FirstCustomerId, AdvertiserX, 1000),
   InvoiceRequest(SecondCustomerId, AdvertiserX, 15),
   InvoiceRequest(AbsentCustomerId, AdvertiserX, 1000),
   InvoiceRequest(FirstCustomerId, <<" ">>, 1000),
   InvoiceRequest(FirstCustomerId, AdvertiserX, MaxUnitPrice + 1)}

UpdateRequests ==
  {[status |-> st] : st \in InvoiceStatus}
  \cup {[advertiser |-> AdvertiserY],
        [customerId |-> AbsentCustomerId],
        [status |-> ISSUED, advertiser |-> <<" ">>]}

\* ----------------------------------------------------------------- actions
\* time passes between two calls
Tick ==
  /\ now < MaxNow
  /\ now' = now + 1
  /\ ret' = NoCall
  /\ UNCHANGED <<customerSheet, invoiceSheet, detailSheet, nCalls>>
  /\ UNCHANGED callVars

CreateCustomer(request) ==
  LET result == ServiceCreateCustomer(customerSheet, request, now)
  IN  /\ customerSheet' = result.sheet
      /\ ret' = Call("createCustomer", result)
      /\ nCalls < MaxCalls
      /\ nCalls' = nCalls + 1
      /\ UNCHANGED <<invoiceSheet, detailSheet, now>>
      /\ UNCHANGED callVars

DeleteCustomer(customerId) ==
  LET result == ServiceDeleteCustomer(customerSheet, customerId)
  IN  /\ customerSheet' = result.sheet
      /\ ret' = Call("deleteCustomer", result)
      /\ nCalls < MaxCalls
      /\ nCalls' = nCalls + 1
      /\ UNCHANGED <<invoiceSheet, detailSheet, now>>
      /\ UNCHANGED callVars

UpdateCustomer(customerId, request) ==
  LET result == ServiceUpdateCustomer(customerSheet, customerId, request, now)
  IN  /\ customerSheet' = result.sheet
      /\ ret' = Call("updateCustomer", result)
      /\ nCalls < MaxCalls
      /\ nCalls' = nCalls + 1
      /\ UNCHANGED <<invoiceSheet, detailSheet, now>>
      /\ UNCHANGED callVars

CreateInvoice(request) ==
  LET result == ServiceCreateInvoice(customerSheet, invoiceSheet, detailSheet,
                                     request, now)
  IN  /\ invoiceSheet' = result.sheet
      /\ detailSheet' = result.detail
      /\ ret' = Call("createInvoice", result)
      /\ nCalls < MaxCalls
      /\ nCalls' = nCalls + 1
      /\ UNCHANGED <<customerSheet, now>>
      /\ UNCHANGED callVars

UpdateInvoice(invoiceNumber, request) ==
  LET result == ServiceUpdateInvoice(customerSheet, invoiceSheet, detailSheet,
                                     invoiceNumber, request, now)
  IN  /\ invoiceSheet' = result.sheet
      /\ detailSheet' = result.detail
      /\ ret' = Call("updateInvoice", result)
      /\ nCalls < MaxCalls
      /\ nCalls' = nCalls + 1
      /\ UNCHANGED <<customerSheet, now>>
      /\ UNCHANGED callVars

DeleteInvoice(invoiceNumber) ==
  LET result == ServiceDeleteInvoice(invoiceSheet, detailSheet, invoiceNumber)
  IN  /\ invoiceSheet' = result.sheet
      /\ detailSheet' = result.detail
      /\ ret' = Call("deleteInvoice", result)
      /\ nCalls < MaxCalls
      /\ nCalls' = nCalls + 1
      /\ UNCHANGED <<customerSheet, now>>
      /\ UNCHANGED callVars

IssueInvoice(invoiceNumber) ==
  LET result == ServiceIssueInvoice(invoiceSheet, detailSheet, invoiceNumber, now)
  IN  /\ invoiceSheet' = result.sheet
      /\ detailSheet' = result.detail
      /\ ret' = Call("issueInvoice", result)
      /\ nCalls < MaxCalls
      /\ nCalls' = nCalls + 1
      /\ UNCHANGED <<customerSheet, now>>
      /\ UNCHANGED callVars

CancelInvoice(invoiceNumber) ==
  LET result == ServiceCancelInvoice(invoiceSheet, detailSheet, invoiceNumber, now)
  IN  /\ invoiceSheet' = result.sheet
      /\ detailSheet' = result.detail
      /\ ret' = Call("cancelInvoice", result)
      /\ nCalls < MaxCalls
      /\ nCalls' = nCalls + 1
      /\ UNCHANGED <<customerSheet, now>>
      /\ UNCHANGED callVars

\* --------------------------------------------------------- specifications
\* Spec: the invoice service, one call at a time, over a customer sheet that
\* holds two customers; the store's reads and writes succeed.
Init ==
  /\ customerSheet = TwoCustomers
  /\ invoiceSheet = SeedInvoice.sheet
  /\ detailSheet = SeedInvoice.detail
  /\ now = 0
  /\ ret = NoCall
  /\ nCalls = 0
  /\ RetryInit
  /\ procs = NoProcs

Next ==
  \/ Tick
  \/ \E request \in InvoiceRequests : CreateInvoice(request)
  \/ \E k \in InvoiceKeys(invoiceSheet, now) : \E request \in UpdateRequests :
       UpdateInvoice(k, request)
  \/ \E k \in InvoiceKeys(invoiceSheet, now) : DeleteInvoice(k)
  \/ \E k \in InvoiceKeys(invoiceSheet, now) : IssueInvoice(k)
  \/ \E k \in InvoiceKeys(invoiceSheet, now) : CancelInvoice(k)

Spec == Init /\ [][Next]_vars

\* SpecCustomer: the customer service, one call at a time.
InitCustomer ==
  /\ customerSheet \in {<<>>, LastFiveDigitCustomer}
  /\ invoiceSheet = <<>>
  /\ detailSheet = <<>>
  /\ now = 0
  /\ ret = NoCall
  /\ nCalls = 0
  /\ RetryInit
  /\ procs = NoProcs

NextCustomer ==
  \/ Tick
  \/ \E request \in CustomerRequests : CreateCustomer(request)
  \/ \E id \in CustomerKeys(customerSheet) : DeleteCustomer(id)

SpecCustomer == InitCustomer /\ [][NextCustomer]_vars

\* SpecCreations: customer creations only, one at a time.
NextCreations ==
  \/ Tick
  \/ \E request \in CustomerRequests : CreateCustomer(request)

SpecCreations == InitCustomer /\ [][NextCreations]_vars

\* SpecMutations: every mutation of the two services, one call at a time,
\* over the two customers and the seeded invoice; each method gets a request
\* that passes and requests that fail each of its checks.
UpdateCustomerRequests ==
  {[companyName |-> NameCd], [companyName |-> <<" ">>],
   [contactPerson |-> <<"T">>], [email |-> InvalidEmail]}
MutationCustomerRequests ==
  {PlainCustomer(NameAb), PlainCustomer(<<"E">>), PlainCustomer(<<" ">>)}
MutationInvoiceRequests ==
  {InvoiceRequest(FirstCustomerId, AdvertiserX, 1000),
   InvoiceRequest(AbsentCustomerId, AdvertiserX, 1000),
   InvoiceRequest(FirstCustomerId, <<" ">>, 1000)}
MutationUpdateRequests ==
  {[status |-> DRAFT], [advertiser |-> AdvertiserY],
   [customerId |-> AbsentCustomerId], [advertiser |-> <<" ">>]}

NextMutations ==
  \/ \E request \in MutationCustomerRequests : CreateCustomer(request)
  \/ \E id \in CustomerKeys(customerSheet) : \E request \in UpdateCustomerRequests :
       UpdateCustomer(id, request)
  \/ \E id \in CustomerKeys(customerSheet) : DeleteCustomer(id)
  \/ \E request \in MutationInvoiceRequests : CreateInvoice(request)
  \/ \E k \in InvoiceKeys(invoiceSheet, now) : \E request \in MutationUpdateRequests :
       UpdateInvoice(k, request)
  \/ \E k \in InvoiceKeys(invoiceSheet, now) : DeleteInvoice(k)
  \/ \E k \in InvoiceKeys(invoiceSheet, now) : IssueInvoice(k)
  \/ \E k \in InvoiceKeys(invoiceSheet, now) : CancelInvoice(k)

SpecMutations == Init /\ [][NextMutations]_vars

\* SpecCustomerNames: createCustomer, updateCustomer and deleteCustomer
\* calls, one at a time, over the two customers.
RenameRequests ==
  {[companyName |-> NameCde], [companyName |-> NameUpperCd],
   [companyName |-> NameB], [contactPerson |-> <<"T">>]}

NextCustomerNames ==
  \/ \E request \in {PlainCustomer(NameAb), PlainCustomer(NameB),
                     PlainCustomer(<<"E">>)} : CreateCustomer(request)
  \/ \E id \in CustomerKeys(customerSheet) : \E request \in RenameRequests :
       UpdateCustomer(id, request)
  \/ \E id \in CustomerKeys(customerSheet) : DeleteCustomer(id)

SpecCustomerNames == Init /\ [][NextCustomerNames]_vars

\* SpecTotals: the invoice service, one call at a time, with updateInvoice
\* patches that carry amounts: UpdateInvoiceRequest is every field of Invoice
\* but invoiceNumber, items, createdAt and updatedAt, each optional.
AmountPatches ==
  {[totalAmount |-> 5], [subtotal |-> 7, taxAmount |-> 0],
   [advertiser |-> AdvertiserY], [status |-> ISSUED]}

NextTotals ==
  \/ CreateInvoice(InvoiceRequest(FirstCustomerId, AdvertiserX, 1000))
  \/ \E k \in InvoiceKeys(invoiceSheet, now) : \E request \in AmountPatches :
       UpdateInvoice(k, request)
  \/ \E k \in InvoiceKeys(invoiceSheet, now) : DeleteInvoice(k)
  \/ \E k \in InvoiceKeys(invoiceSheet, now) : IssueInvoice(k)
  \/ \E k \in InvoiceKeys(invoiceSheet, now) : CancelInvoice(k)

SpecTotals == Init /\ [][NextTotals]_vars

\* SpecRetry: calls of withRetry around an operation that returns or throws.
InitRetry ==
  /\ customerSheet = <<>>
  /\ invoiceSheet = <<>>
  /\ detailSheet = <<>>
  /\ now = 0
  /\ ret = NoCall
  /\ nCalls = 0
  /\ RetryInit
  /\ procs = NoProcs

NextRetry ==
  \/ \E m \in 0..MAX_RETRIES : WithRetryStart(m)
  \/ FnReturns
  \/ \E e \in Throwables : FnThrows(e)
  \/ RetryDelay

SpecRetry == InitRetry /\ [][NextRetry]_vars
FairSpecRetry == SpecRetry /\ WF_vars(RetryStep)

\* SpecPropagation: a service method calls a repository method.  What is
\* thrown inside the repository method goes through its catch block
\* (handleError, throw appError) before it leaves the operation that withRetry
\* wraps; what withRetry throws goes through the catch block of the service
\* method before it reaches the caller of the service.
RepositoryThrows(e) == FnThrows(ThrownApp(Handle(e, RetryContext)))

ServiceCatch ==
  LET appError == Handle(ThrownApp(outcome.error), "InvoiceService.createInvoice")
  IN  /\ rpc = "done"
      /\ outcome.kind = "thrown"
      /\ rpc' = "idle"
      /\ ret' = [op |-> "InvoiceService", code |-> appError.code, value |-> appError]
      /\ UNCHANGED <<customerSheet, invoiceSheet, detailSheet, now, nCalls>>
      /\ UNCHANGED <<attempt, maxRetries, calls, slept, raised, lastError, outcome>>
      /\ UNCHANGED procs

NextPropagation ==
  \/ \E m \in 0..MAX_RETRIES : WithRetryStart(m)
  \/ FnReturns
  \/ \E e \in Throwables : RepositoryThrows(e)
  \/ RetryDelay
  \/ ServiceCatch

SpecPropagation == InitRetry /\ [][NextPropagation]_vars

\* SpecAmounts: the first createInvoice call of a run, over unit prices at
\* both ends of the accepted range, around the powers of ten and of two
\* between them, and just outside the range.
PriceSpan == 30
RECURSIVE Pow(_, _)
Pow(b, n) == IF n = 0 THEN 1 ELSE b * Pow(b, n - 1)
PriceSamples ==
  (0..PriceSpan)
  \cup ((MaxUnitPrice - PriceSpan)..(MaxUnitPrice + 1))
  \cup {Pow(10, n) + d : n \in 1..7, d \in {-1, 0, 1}}
  \cup {Pow(2, n) + d : n \in 5..26, d \in {-1, 0, 1}}

CreatePriced(unitPrice) ==
  /\ nCalls = 0
  /\ CreateInvoice(InvoiceRequest(FirstCustomerId, AdvertiserX, unitPrice))

\* Requests at the limits of every validated field; a price is the pair of
\* its integer part and its half.
FieldSamples ==
  {[customerId |-> c, advertiser |-> a, subject |-> sj,
    unitPrice |-> pr[1], half |-> pr[2], notes |-> n] :
     c \in {FirstCustomerId, AbsentCustomerId, EmptyStr},
     a \in {AdvertiserX, EmptyStr, Repeat("a", MaxAdvertiserLen),
            Repeat("a", MaxAdvertiserLen + 1)},
     sj \in {SubjectS, EmptyStr, Repeat("s", MaxSubjectLen),
             Repeat("s", MaxSubjectLen + 1)},
     pr \in {<<1000, 0>>, <<0, 0>>, <<-1, 0>>, <<0, 1>>, <<1000, 1>>,
             <<MaxUnitPrice, 0>>, <<MaxUnitPrice, 1>>, <<MaxUnitPrice + 1, 0>>},
     n \in {Undefined, EmptyStr, Repeat("n", MaxNotesLen),
            Repeat("n", MaxNotesLen + 1)}}

CreateFirst(request) ==
  /\ nCalls = 0
  /\ CreateInvoice(request)

NextAmounts ==
  \/ Tick
  \/ \E unitPrice \in PriceSamples : CreatePriced(unitPrice)
  \/ \E request \in FieldSamples : CreateFirst(request)

SpecAmounts == Init /\ [][NextAmounts]_vars

\* SpecReferences: createInvoice and updateInvoice calls, the patches naming
\* a customer; no customer is deleted.
CustomerPatches ==
  {[customerId |-> c] :
     c \in {FirstCustomerId, SecondCustomerId, AbsentCustomerId, EmptyStr}}

NextReferences ==
  \/ Tick
  \/ \E request \in InvoiceRequests : CreateInvoice(request)
  \/ \E k \in InvoiceKeys(invoiceSheet, now) : \E request \in CustomerPatches :
       UpdateInvoice(k, request)

SpecReferences == Init /\ [][NextReferences]_vars

\* SpecDelete: deleteInvoice over sheets in which an invoice has any number
\* of line-item rows, at any places of the line-item sheet.  The rows are
\* those of two invoices of the month; the itemId of a line-item row ends
\* with the place the row has at the start.
MaxItemRows == 4
FirstNumber == FormatInvoiceNumber(YearMonth(0), 1)
SecondNumber == FormatInvoiceNumber(YearMonth(0), 2)
HeaderRow(number) == [SeedInvoice.sheet[1] EXCEPT !.invoiceNumber = number]
ItemRowAt(number, place) ==
  [SeedInvoice.detail[1] EXCEPT
     !.invoiceNumber = number,
     !.itemId = number \o <<"-">> \o PadStart(NumToStr(place), 3, "0")]

InitDelete ==
  /\ customerSheet = TwoCustomers
  /\ invoiceSheet \in {<<HeaderRow(FirstNumber), HeaderRow(SecondNumber)>>,
                       <<HeaderRow(SecondNumber), HeaderRow(FirstNumber)>>,
                       <<HeaderRow(FirstNumber)>>}
  /\ \E n \in 0..MaxItemRows :
       \E owner \in [1..n -> {FirstNumber, SecondNumber}] :
         detailSheet = [place \in 1..n |-> ItemRowAt(owner[place], place)]
  /\ now = 0
  /\ ret = NoCall
  /\ nCalls = 0
  /\ RetryInit
  /\ procs = NoProcs

NextDelete ==
  \E k \in InvoiceKeys(invoiceSheet, now) : DeleteInvoice(k)

SpecDelete == InitDelete /\ [][NextDelete]_vars

\* SpecReadBack: creations of customers and invoices, among them requests
\* whose optional strings are '', from the seeded customer sheet or from one
\* whose only row is C99999.
InitReadBack ==
  /\ customerSheet \in {TwoCustomers, LastFiveDigitCustomer}
  /\ invoiceSheet = SeedInvoice.sheet
  /\ detailSheet = SeedInvoice.detail
  /\ now = 0
  /\ ret = NoCall
  /\ nCalls = 0
  /\ RetryInit
  /\ procs = NoProcs

NextReadBack ==
  \/ Tick
  \/ \E request \in CustomerRequests
                    \cup {CustomerRequest(<<"E">>, EmptyStr, EmptyStr, EmptyStr, EmptyStr)} :
       CreateCustomer(request)
  \/ \E request \in InvoiceRequests
                    \cup {[InvoiceRequest(FirstCustomerId, AdvertiserX, 1000)
                             EXCEPT !.notes = notes] : notes \in {EmptyStr, <<"n">>}} :
       CreateInvoice(request)

SpecReadBack == InitReadBack /\ [][NextReadBack]_vars

\* SpecUpdate: the update methods of the two repositories, called with
\* patches of the request types (UpdateInvoiceRequest, UpdateCustomerRequest),
\* between invoice creations.
InvoiceRepoPatches ==
  {<<>>,
   [status |-> ISSUED, notes |-> <<"n">>, pdfUrl |-> <<"u">>],
   [customerId |-> SecondCustomerId, advertiser |-> AdvertiserY,
    subject |-> <<"T">>, issueDate |-> 1, totalAmount |-> 5]}
CustomerRepoPatches ==
  {<<>>,
   [companyName |-> NameB, contactPerson |-> <<"T">>, email |-> ValidEmail],
   [address |-> <<"a">>, postalCode |-> ValidPostalCode,
    phoneNumber |-> ValidPhoneNumber]}

RepoUpdateInvoice(invoiceNumber, request) ==
  LET result == InvoiceRepoUpdate(invoiceSheet, detailSheet, invoiceNumber,
                                  request, now)
  IN  /\ invoiceSheet' = result.sheet
      /\ detailSheet' = result.detail
      /\ ret' = Call("InvoiceRepository.update", result)
      /\ nCalls < MaxCalls
      /\ nCalls' = nCalls + 1
      /\ UNCHANGED <<customerSheet, now>>
      /\ UNCHANGED callVars

RepoUpdateCustomer(customerId, request) ==
  LET result == CustomerRepoUpdate(customerSheet, customerId, request, now)
  IN  /\ customerSheet' = result.sheet
      /\ ret' = Call("CustomerRepository.update", result)
      /\ nCalls < MaxCalls
      /\ nCalls' = nCalls + 1
      /\ UNCHANGED <<invoiceSheet, detailSheet, now>>
      /\ UNCHANGED callVars

NextUpdate ==
  \/ Tick
  \/ CreateInvoice(InvoiceRequest(FirstCustomerId, AdvertiserX, 1000))
  \/ \E k \in InvoiceKeys(invoiceSheet, now) : \E request \in InvoiceRepoPatches :
       RepoUpdateInvoice(k, request)
  \/ \E id \in CustomerKeys(customerSheet) : \E request \in CustomerRepoPatches :
       RepoUpdateCustomer(id, request)

SpecUpdate == Init /\ [][NextUpdate]_vars

\* ------------------------------------------------- calls running side by side
\* Separate invocations of the script share the sheets and nothing else, and
\* no lock is taken: the steps of a call are its reads and writes of a sheet
\* (getDataRange().getValues(), getLastRow(), setValues(), deleteRow()), and
\* the steps of different calls interleave in any order.  A call keeps what
\* it has read in its local variables: procs[p] holds them for call p.
Proc(op, pc, request) ==
  [op |-> op, pc |-> pc, request |-> request, id |-> EmptyStr, data |-> <<>>,
   seen |-> <<>>, nextRow |-> 0, entity |-> Null, code |-> OK, attempt |-> 0]

\* procs[p] becomes rec
SetProc(p, rec) == procs' = [procs EXCEPT ![p] = rec]

\* sheet.getRange(nextRow, 1, 1, n).setValues([values]) on data row nextRow:
\* the row is replaced when the sheet has it already
WriteRowAt(sheet, nextRow, row) ==
  IF nextRow > Len(sheet) THEN Append(sheet, row)
  ELSE [sheet EXCEPT ![nextRow] = row]

\* CustomerRepository.create, one sheet access at a time
CustomerCreateStep(p) ==
  LET me == procs[p]
      customer == [CustomerRepoCreate(<<>>, me.request, now).value
                     EXCEPT !.customerId = me.id]
  IN  /\ me.op = "CustomerRepository.create"
      /\ \/ /\ me.pc = "generateCustomerId"
            /\ SetProc(p, [me EXCEPT !.pc = "findByCompanyName",
                                     !.data = customerSheet,
                                     !.id = GenerateCustomerId(customerSheet)])
            /\ UNCHANGED customerSheet
         \/ /\ me.pc = "findByCompanyName"
            /\ IF FindByCompanyName(customerSheet, me.request.companyName) # Null
               THEN SetProc(p, [me EXCEPT !.pc = "done", !.code = CUSTOMER_DUPLICATE])
               ELSE SetProc(p, [me EXCEPT !.pc = "getLastRow", !.entity = customer])
            /\ UNCHANGED customerSheet
         \/ /\ me.pc = "getLastRow"
            /\ SetProc(p, [me EXCEPT !.pc = "setValues",
                                     !.nextRow = Len(customerSheet) + 1])
            /\ UNCHANGED customerSheet
         \/ /\ me.pc = "setValues"
            /\ customerSheet' = WriteRowAt(customerSheet, me.nextRow,
                                           CustomerToRowData(me.entity))
            /\ SetProc(p, [me EXCEPT !.pc = "done"])
      /\ UNCHANGED <<invoiceSheet, detailSheet, now, ret, nCalls>>
      /\ UNCHANGED retryVars

\* the invoice InvoiceRepository.create builds once it has the number
InvoiceNumbered(invoiceNumber, request, t) ==
  LET made == InvoiceRepoCreate(<<>>, <<>>, request, t).value
      item == [made.items[1] EXCEPT !.invoiceNumber = invoiceNumber,
                                     !.itemId = GenerateItemId(invoiceNumber)]
  IN  [made EXCEPT !.invoiceNumber = invoiceNumber, !.items = <<item>>]

\* InvoiceRepository.create, one sheet access at a time
InvoiceCreateStep(p) ==
  LET me == procs[p]
  IN  /\ me.op = "InvoiceRepository.create"
      /\ \/ /\ me.pc = "generateInvoiceNumber"
            /\ SetProc(p, [me EXCEPT !.pc = "findByNumber",
                                     !.data = invoiceSheet,
                                     !.id = GenerateInvoiceNumber(invoiceSheet, now)])
            /\ UNCHANGED <<invoiceSheet, detailSheet>>
         \/ /\ me.pc = "findByNumber"
            /\ IF NumberTaken(invoiceSheet, detailSheet, me.id)
               THEN SetProc(p, [me EXCEPT !.pc = "done", !.seen = invoiceSheet,
                                          !.code = INVOICE_DUPLICATE])
               ELSE SetProc(p, [me EXCEPT !.pc = "insertInvoiceData",
                                          !.seen = invoiceSheet,
                                          !.entity = InvoiceNumbered(me.id, me.request, now)])
            /\ UNCHANGED <<invoiceSheet, detailSheet>>
         \/ /\ me.pc = "insertInvoiceData"
            /\ SetProc(p, [me EXCEPT !.pc = "invoiceSetValues",
                                     !.nextRow = Len(invoiceSheet) + 1])
            /\ UNCHANGED <<invoiceSheet, detailSheet>>
         \/ /\ me.pc = "invoiceSetValues"
            /\ invoiceSheet' = WriteRowAt(invoiceSheet, me.nextRow,
                                          InvoiceToRowData(me.entity))
            /\ SetProc(p, [me EXCEPT !.pc = "insertItemData"])
            /\ UNCHANGED detailSheet
         \/ /\ me.pc = "insertItemData"
            /\ SetProc(p, [me EXCEPT !.pc = "itemSetValues",
                                     !.nextRow = Len(detailSheet) + 1])
            /\ UNCHANGED <<invoiceSheet, detailSheet>>
         \/ /\ me.pc = "itemSetValues"
            /\ detailSheet' = WriteRowAt(detailSheet, me.nextRow,
                                         ItemToRowData(me.entity.items[1]))
            /\ SetProc(p, [me EXCEPT !.pc = "done"])
            /\ UNCHANGED invoiceSheet
      /\ UNCHANGED <<customerSheet, now, ret, nCalls>>
      /\ UNCHANGED retryVars

\* SpecCreates: two calls of CustomerRepository.create with unrelated company
\* names and two calls of InvoiceRepository.create, all four side by side, on
\* a customer sheet whose first customer has been deleted.
InitCreates ==
  /\ customerSheet = DeleteRow(TwoCustomers, 1)
  /\ invoiceSheet = <<HeaderRow(FirstNumber)>>
  /\ detailSheet = <<ItemRowAt(FirstNumber, 1)>>
  /\ now = 0
  /\ ret = NoCall
  /\ nCalls = 0
  /\ RetryInit
  /\ procs = <<Proc("CustomerRepository.create", "generateCustomerId",
                    PlainCustomer(<<"E">>)),
               Proc("CustomerRepository.create", "generateCustomerId",
                    PlainCustomer(<<"F">>)),
               Proc("InvoiceRepository.create", "generateInvoiceNumber",
                    InvoiceRequest(FirstCustomerId, AdvertiserX, 1000)),
               Proc("InvoiceRepository.create", "generateInvoiceNumber",
                    InvoiceRequest(SecondCustomerId, AdvertiserY, 15))>>

NextCreates ==
  \E p \in DOMAIN procs : CustomerCreateStep(p) \/ InvoiceCreateStep(p)

SpecCreates == InitCreates /\ [][NextCreates]_vars

\* the data row of the invoice number, 0 when no row has it
RowOf(sheet, k) ==
  LET Test(row) == row.invoiceNumber = k
  IN  FirstIndex(sheet, Test)

\* updateInvoice, issueInvoice or cancelInvoice of InvoiceService, one sheet
\* access at a time: the service reads the invoice (getInvoice) and makes its
\* checks on what it read; InvoiceRepository.update reads the sheet again
\* (getValues), merges the patch into the row it read, and writes that row
\* back (setValues).  procs[p].id is the invoice number, procs[p].request the
\* patch (issueInvoice and cancelInvoice make their own).
ServiceChecked(op, invoiceNumber, request) ==
  IF op = "issueInvoice"
  THEN ServiceIssueInvoice(invoiceSheet, detailSheet, invoiceNumber, now)
  ELSE IF op = "cancelInvoice"
  THEN ServiceCancelInvoice(invoiceSheet, detailSheet, invoiceNumber, now)
  ELSE ServiceUpdateInvoice(customerSheet, invoiceSheet, detailSheet,
                            invoiceNumber, request, now)

InvoiceUpdateStep(p) ==
  LET me == procs[p]
      patch == IF me.op = "issueInvoice" THEN [status |-> ISSUED, issueDate |-> now]
               ELSE IF me.op = "cancelInvoice" THEN [status |-> CANCELLED]
               ELSE me.request
      checked == ServiceChecked(me.op, me.id, me.request)
      merged == InvoiceRepoUpdate(invoiceSheet, detailSheet, me.id, me.request, now)
  IN  /\ me.op \in {"updateInvoice", "issueInvoice", "cancelInvoice"}
      /\ \/ /\ me.pc = "getInvoice"
            /\ IF checked.code # OK
               THEN SetProc(p, [me EXCEPT !.pc = "done", !.code = checked.code])
               ELSE SetProc(p, [me EXCEPT !.pc = "getValues", !.request = patch,
                                          !.seen = invoiceSheet])
            /\ UNCHANGED invoiceSheet
         \/ /\ me.pc = "getValues"
            /\ IF merged.code # OK
               THEN SetProc(p, [me EXCEPT !.pc = "done", !.code = merged.code])
               ELSE SetProc(p, [me EXCEPT !.pc = "setValues",
                                          !.data = invoiceSheet,
                                          !.nextRow = RowOf(invoiceSheet, me.id),
                                          !.entity = merged.value])
            /\ UNCHANGED invoiceSheet
         \/ /\ me.pc = "setValues"
            /\ invoiceSheet' = WriteRowAt(invoiceSheet, me.nextRow,
                                          InvoiceToRowData(me.entity))
            /\ SetProc(p, [me EXCEPT !.pc = "done"])
      /\ UNCHANGED <<customerSheet, detailSheet, now, ret, nCalls>>
      /\ UNCHANGED retryVars

\* SpecStatusRace: two calls on the seeded invoice side by side, each an
\* updateInvoice, an issueInvoice or a cancelInvoice.
RacingCalls ==
  {Proc(op, "getInvoice", <<>>) : op \in {"issueInvoice", "cancelInvoice"}}
  \cup {Proc("updateInvoice", "getInvoice", request) :
          request \in {[advertiser |-> AdvertiserY], [status |-> CANCELLED]}}

InitStatusRace ==
  /\ customerSheet = TwoCustomers
  /\ invoiceSheet = SeedInvoice.sheet
  /\ detailSheet = SeedInvoice.detail
  /\ now = 0
  /\ ret = NoCall
  /\ nCalls = 0
  /\ RetryInit
  /\ \E first, second \in RacingCalls :
       procs = <<[first EXCEPT !.id = SeedInvoice.sheet[1].invoiceNumber],
                 [second EXCEPT !.id = SeedInvoice.sheet[1].invoiceNumber]>>

NextStatusRace == \E p \in DOMAIN procs : InvoiceUpdateStep(p)

SpecStatusRace == InitStatusRace /\ [][NextStatusRace]_vars

\* InvoiceRepository.delete, one sheet access at a time.  The method does two
\* things one after the other, each a read followed by deleteRow calls:
\* deleteInvoiceItems (every line-item row of the number, from the last row
\* of the snapshot to the first) and the removal of the header row.
DeleteOrder_HeaderFirst == <<"header.getValues", "items.getValues">>
DeleteOrder == <<"items.getValues", "header.getValues">>

\* the last data row among the first n of data that carries the number, or 0
LastItemRow(data, n, invoiceNumber) ==
  LET rows == {j \in 1..n : data[j].invoiceNumber = invoiceNumber}
  IN  IF rows = {} THEN 0 ELSE Max(rows)

InvoiceDeleteStep(p) ==
  LET me == procs[p]
      AfterPart(part) == IF part = DeleteOrder[1] THEN DeleteOrder[2] ELSE "done"
      last == LastItemRow(detailSheet, Len(detailSheet), me.id)
      below == LastItemRow(me.data, me.nextRow - 1, me.id)
  IN  /\ me.op = "InvoiceRepository.delete"
      /\ \/ /\ me.pc = "items.getValues"
            /\ SetProc(p, [me EXCEPT !.data = detailSheet, !.nextRow = last,
                                     !.pc = IF last = 0 THEN AfterPart("items.getValues")
                                            ELSE "items.deleteRow"])
            /\ UNCHANGED <<invoiceSheet, detailSheet>>
         \/ /\ me.pc = "items.deleteRow"
            /\ detailSheet' = DeleteRow(detailSheet, me.nextRow)
            /\ SetProc(p, [me EXCEPT !.nextRow = below,
                                     !.pc = IF below = 0 THEN AfterPart("items.getValues")
                                            ELSE "items.deleteRow"])
            /\ UNCHANGED invoiceSheet
         \/ /\ me.pc = "header.getValues"
            /\ IF RowOf(invoiceSheet, me.id) = 0
               THEN SetProc(p, [me EXCEPT !.pc = "done", !.code = INVOICE_NOT_FOUND])
               ELSE SetProc(p, [me EXCEPT !.pc = "header.deleteRow",
                                          !.nextRow = RowOf(invoiceSheet, me.id)])
            /\ UNCHANGED <<invoiceSheet, detailSheet>>
         \/ /\ me.pc = "header.deleteRow"
            /\ invoiceSheet' = DeleteRow(invoiceSheet, me.nextRow)
            /\ SetProc(p, [me EXCEPT !.pc = AfterPart("header.getValues")])
            /\ UNCHANGED detailSheet
      /\ UNCHANGED <<customerSheet, now, ret, nCalls>>
      /\ UNCHANGED retryVars

\* The sheet access a call is about to make throws e.  The methods run inside
\* withRetry: the catch block of the method and the one of withRetry classify
\* the error, and the operation is run again from its start unless withRetry
\* gives up.
FirstStep(op) ==
  IF op = "InvoiceRepository.delete" THEN DeleteOrder[1]
  ELSE IF op = "InvoiceRepository.create" THEN "generateInvoiceNumber"
  ELSE "generateCustomerId"

AccessFails(p, e) ==
  LET me == procs[p]
      appError == Handle(ThrownApp(Handle(e, me.op)), me.op)
  IN  /\ me.pc # "done"
      /\ IF GivesUp(appError, me.attempt, MAX_RETRIES)
         THEN SetProc(p, [me EXCEPT !.pc = "done", !.code = appError.code])
         ELSE SetProc(p, [me EXCEPT !.pc = FirstStep(me.op),
                                    !.attempt = me.attempt + 1])
      /\ UNCHANGED storeVars
      /\ UNCHANGED retryVars

\* errors of a sheet access: one that is retried, one that is not
AccessErrors ==
  {ThrownError(MessageOf({"Spreadsheet"})),
   ThrownError(MessageOf({"Spreadsheet", "permission"}))}

\* SpecDeleteSteps: one call of InvoiceRepository.delete for the first
\* invoice, on the sheets of SpecDelete, with sheet accesses that may fail.
InitDeleteSteps ==
  /\ customerSheet = TwoCustomers
  /\ invoiceSheet \in {<<HeaderRow(FirstNumber), HeaderRow(SecondNumber)>>,
                       <<HeaderRow(SecondNumber), HeaderRow(FirstNumber)>>,
                       <<HeaderRow(FirstNumber)>>}
  /\ \E n \in 0..MaxItemRows :
       \E owner \in [1..n -> {FirstNumber, SecondNumber}] :
         detailSheet = [place \in 1..n |-> ItemRowAt(owner[place], place)]
  /\ now = 0
  /\ ret = NoCall
  /\ nCalls = 0
  /\ RetryInit
  /\ procs = <<[Proc("InvoiceRepository.delete", DeleteOrder[1], <<>>)
                  EXCEPT !.id = FirstNumber]>>

NextDeleteSteps ==
  \E p \in DOMAIN procs :
    \/ InvoiceDeleteStep(p)
    \/ \E e \in AccessErrors : AccessFails(p, e)

SpecDeleteSteps == InitDeleteSteps /\ [][NextDeleteSteps]_vars

\* A write of InvoiceRepository.create fails: insertInvoiceData and
\* insertItemData (getLastRow, then setValues) run directly inside the
\* operation that create hands to withRetry, so the error reaches create's
\* catch and then withRetry, which runs the whole operation again.
CreateWrites ==
  {"insertInvoiceData", "invoiceSetValues", "insertItemData", "itemSetValues"}
WriteFails(p, e) ==
  /\ procs[p].op = "InvoiceRepository.create"
  /\ procs[p].pc \in CreateWrites
  /\ AccessFails(p, e)

\* SpecCreateRetry: one call of InvoiceRepository.create whose writes may fail.
InitCreateRetry ==
  /\ customerSheet = TwoCustomers
  /\ invoiceSheet = <<HeaderRow(FirstNumber)>>
  /\ detailSheet = <<ItemRowAt(FirstNumber, 1)>>
  /\ now = 0
  /\ ret = NoCall
  /\ nCalls = 0
  /\ RetryInit
  /\ \E request \in {InvoiceRequest(FirstCustomerId, AdvertiserX, 1000),
                     InvoiceRequest(SecondCustomerId, AdvertiserY, 15)} :
       procs = <<Proc("InvoiceRepository.create", "generateInvoiceNumber", request)>>

NextCreateRetry ==
  \E p \in DOMAIN procs :
    \/ InvoiceCreateStep(p)
    \/ \E e \in AccessErrors : WriteFails(p, e)

SpecCreateRetry == InitCreateRetry /\ [][NextCreateRetry]_vars

\* A caller that keeps the invoice numbers its createInvoice calls returned:
\* procs is the list of the numbers returned so far.
CreateInvoiceKept(request) ==
  LET result == ServiceCreateInvoice(customerSheet, invoiceSheet, detailSheet,
                                     request, now)
  IN  /\ invoiceSheet' = result.sheet
      /\ detailSheet' = result.detail
      /\ ret' = Call("createInvoice", result)
      /\ nCalls < MaxCalls
      /\ nCalls' = nCalls + 1
      /\ procs' = IF result.code = OK
                  THEN Append(procs, result.value.invoiceNumber)
                  ELSE procs
      /\ UNCHANGED <<customerSheet, now>>
      /\ UNCHANGED retryVars

\* SpecNumbers: createInvoice and deleteInvoice calls, one at a time, over
\* the months.
NextNumbers ==
  \/ Tick
  \/ \E request \in {InvoiceRequest(FirstCustomerId, AdvertiserX, 1000),
                     InvoiceRequest(SecondCustomerId, AdvertiserY, 15)} :
       CreateInvoiceKept(request)
  \/ \E k \in InvoiceKeys(invoiceSheet, now) : DeleteInvoice(k)

SpecNumbers == Init /\ [][NextNumbers]_vars

\* Repository methods that call one another.  Every public method is
\* return withRetry(async () => { try { ... } catch (error) { throw
\* handleError(error, context) } }, context), and some call another such
\* method inside: findByFilter calls findAll, InvoiceRepository.create calls
\* findByNumber and CustomerRepository.create calls findByCompanyName, both
\* after reading the sheet themselves to generate the identifier.  procs is
\* the stack of the withRetry loops that are running, the public call at the
\* bottom; each has its own attempt counter.  calls counts the attempts of
\* the sheet read of the innermost method, lastError is the error in flight.
WrappedCallee(op) ==
  IF op = "InvoiceRepository.findByFilter" THEN "InvoiceRepository.findAll"
  ELSE IF op = "InvoiceRepository.create" THEN "InvoiceRepository.findByNumber"
  ELSE IF op = "CustomerRepository.create" THEN "CustomerRepository.findByCompanyName"
  ELSE "none"
StartPc(op) ==
  IF op \in {"InvoiceRepository.create", "CustomerRepository.create"}
  THEN "generate" ELSE "call"
PublicCalls ==
  {"InvoiceRepository.findAll", "InvoiceRepository.findByFilter",
   "InvoiceRepository.create", "CustomerRepository.create"}

Top == procs[Len(procs)]
SetTop(rec) == procs' = [procs EXCEPT ![Len(procs)] = rec]

\* x is thrown inside the operation of the innermost loop: the method's
\* catch block, then the catch block of withRetry
Catch(x) ==
  LET me == Top
      appError == Handle(ThrownApp(Handle(x, me.op)), me.op)
  IN  /\ lastError' = appError
      /\ IF GivesUp(appError, me.attempt, MAX_RETRIES)
         THEN /\ IF Len(procs) = 1
                 THEN SetTop([me EXCEPT !.pc = "done", !.code = appError.code])
                 ELSE procs' = [SubSeq(procs, 1, Len(procs) - 1)
                                  EXCEPT ![Len(procs) - 1].pc = "caught"]
              /\ UNCHANGED slept
         ELSE /\ SetTop([me EXCEPT !.pc = StartPc(me.op),
                                   !.attempt = me.attempt + 1])
              /\ slept' = slept + DelayMs(me.attempt)
      /\ UNCHANGED <<rpc, attempt, maxRetries, raised, outcome>>
      /\ UNCHANGED storeVars

\* generateInvoiceNumber / generateCustomerId read the sheet
NestedGenerates ==
  /\ Top.pc = "generate"
  /\ \/ /\ SetTop([Top EXCEPT !.pc = "call"])
        /\ UNCHANGED <<storeVars, retryVars>>
     \/ \E e \in AccessErrors : Catch(e) /\ UNCHANGED calls

\* the operation calls the wrapped method: a new withRetry loop starts
NestedCalls ==
  /\ Top.pc = "call"
  /\ WrappedCallee(Top.op) # "none"
  /\ procs' = Append(procs, Proc(WrappedCallee(Top.op), "call", <<>>))
  /\ UNCHANGED <<storeVars, retryVars>>

\* getDataRange().getValues() of the innermost method returns or throws
NestedReads ==
  /\ Top.pc = "call"
  /\ WrappedCallee(Top.op) = "none"
  /\ calls' = calls + 1
  /\ \/ /\ procs' = <<[procs[1] EXCEPT !.pc = "done"]>>
        /\ UNCHANGED storeVars
        /\ UNCHANGED <<rpc, attempt, maxRetries, slept, raised, lastError, outcome>>
     \/ \E e \in AccessErrors : Catch(e)

\* what the wrapped method threw reaches the operation that called it
NestedCatches ==
  /\ Top.pc = "caught"
  /\ Catch(ThrownApp(lastError))
  /\ UNCHANGED calls

\* SpecNested: one public repository call over a store whose reads may fail.
InitNested ==
  /\ customerSheet = TwoCustomers
  /\ invoiceSheet = SeedInvoice.sheet
  /\ detailSheet = SeedInvoice.detail
  /\ now = 0
  /\ ret = NoCall
  /\ nCalls = 0
  /\ RetryInit
  /\ \E op \in PublicCalls : procs = <<Proc(op, StartPc(op), <<>>)>>

NextNested == NestedGenerates \/ NestedCalls \/ NestedReads \/ NestedCatches

SpecNested == InitNested /\ [][NextNested]_vars

\* ===================================================== withRetry properties
ThrewRetryable ==
  rpc = "done" /\ outcome.kind = "thrown" /\ outcome.error.isRetryable
RawPermission ==
  raised.kind = "Error" /\ Includes(raised.message, WPermission)

C7_NonRetryableFailsOnce ==
  (raised # NotThrown /\ ~lastError.isRetryable) =>
     /\ rpc = "done"
     /\ outcome = [kind |-> "thrown", error |-> lastError]
     /\ calls = attempt + 1
     /\ attempt = 0 => (calls = 1 /\ slept = 0)
     /\ raised.kind = "AppError" => outcome.error.code = raised.err.code

C7_Witness ==
  /\ rpc = "done"
  /\ raised = ThrownApp(InvoiceError(INVOICE_STATUS_ERROR,
                                     "InvoiceService.issueInvoice"))
  /\ outcome.kind = "thrown"
  /\ outcome.error.code = INVOICE_STATUS_ERROR
  /\ calls = 1
  /\ slept = 0

\* C8 as stated: a raw error whose message contains "permission" is
\* classified as not retryable and is never retried, whatever else the
\* message contains; raw store-access and timeout errors without it are
\* classified as retryable.
C8_PermissionNeverRetried ==
  /\ RawPermission => (~lastError.isRetryable /\ rpc # "delay")
  /\ (/\ raised.kind = "Error"
      /\ ~Includes(raised.message, WPermission)
      /\ \/ Includes(raised.message, WSpreadsheet)
         \/ Includes(raised.message, WTimeout))
     => lastError.isRetryable

\* ============================================== invoice lifecycle properties
\* the data row that holds invoice number k, 0 when there is none
HasRow(sheet, k) == RowOf(sheet, k) # 0
StatusOf(sheet, k) == sheet[RowOf(sheet, k)].status
Numbers(sheet) == {sheet[i].invoiceNumber : i \in 1..Len(sheet)}
SheetsUnchanged == UNCHANGED <<invoiceSheet, detailSheet>>
Failed(code) == ret'.code = code /\ SheetsUnchanged

C3_UniqueInvoiceNumbers ==
  \A i, j \in 1..Len(invoiceSheet) :
    i # j => invoiceSheet[i].invoiceNumber # invoiceSheet[j].invoiceNumber

\* the sequence has left its three digits and a creation was turned down by
\* the re-check for the number
C3_Witness ==
  /\ Len(invoiceSheet) >= 2
  /\ ret.op = "createInvoice"
  /\ ret.code = INVOICE_DUPLICATE

\* C9: issueInvoice on an invoice whose stored status is not DRAFT fails
\* with INVOICE_STATUS_ERROR and writes nothing; on a DRAFT invoice it
\* returns, and the row then differs from the one before in status (ISSUED),
\* issueDate (the current time) and updatedAt only, every other row and the
\* line items staying as they were.
C9_IssueOnlyDraft ==
  [][\A k \in Numbers(invoiceSheet) :
       IssueInvoice(k) =>
         IF StatusOf(invoiceSheet, k) # DRAFT
         THEN Failed(INVOICE_STATUS_ERROR)
         ELSE /\ ret'.code = OK
              /\ invoiceSheet' =
                   [invoiceSheet EXCEPT ![RowOf(invoiceSheet, k)] =
                      [@ EXCEPT !.status = ISSUED,
                                !.issueDate = now,
                                !.updatedAt = now]]
              /\ UNCHANGED detailSheet]_vars

\* a draft was issued one month after its creation
C9_Witness ==
  /\ ret.op = "issueInvoice"
  /\ ret.code = OK
  /\ ret.value.status = ISSUED
  /\ ret.value.issueDate = now
  /\ ret.value.createdAt < now
  /\ StatusOf(invoiceSheet, ret.value.invoiceNumber) = ISSUED

\* C10: deleteInvoice on an invoice whose stored status is ISSUED fails with
\* INVOICE_STATUS_ERROR and removes no header row and no line-item row; no
\* step removes a header row whose status is ISSUED.
C10_IssuedNeverDeleted ==
  [][\A k \in Numbers(invoiceSheet) :
       StatusOf(invoiceSheet, k) = ISSUED =>
         /\ DeleteInvoice(k) => Failed(INVOICE_STATUS_ERROR)
         /\ HasRow(invoiceSheet', k)
         /\ GetInvoiceItems(detailSheet', k) = GetInvoiceItems(detailSheet, k)]_vars

C10_Witness ==
  /\ ret.op = "deleteInvoice"
  /\ ret.code = INVOICE_STATUS_ERROR
  /\ \E i \in 1..Len(invoiceSheet) :
       /\ invoiceSheet[i].status = ISSUED
       /\ Len(GetInvoiceItems(detailSheet, invoiceSheet[i].invoiceNumber)) = 1

IdNumber(customerId) == ParseInt(Tail(customerId))

\* C4 as stated: the customer ids that successive successful creations
\* append to the customer sheet are strictly increasing, hence distinct.
C4_IdsStrictlyIncreasing ==
  \A i, j \in 1..Len(customerSheet) :
    i < j => IdNumber(customerSheet[i].customerId)
               < IdNumber(customerSheet[j].customerId)

\* ============================================================== validation
\* what the rules for the fields of a creation request exclude: a unit price
\* that is no integer of 1..99,999,999, an empty customerId, an empty or
\* too long advertiser or subject, too long notes
OutsideFieldRules(request) ==
  \/ request.half # 0
  \/ request.unitPrice \notin 1..MaxUnitPrice
  \/ request.customerId = EmptyStr
  \/ request.advertiser = EmptyStr
  \/ Len(request.advertiser) > MaxAdvertiserLen
  \/ request.subject = EmptyStr
  \/ Len(request.subject) > MaxSubjectLen
  \/ (request.notes # Undefined /\ Len(request.notes) > MaxNotesLen)

\* C11 as stated: createInvoice fails with a validation error (DATA_INVALID)
\* and reads and writes nothing for every request whose unit price is not an
\* integer of 1..99,999,999 (zero, negative, fractional, above the maximum),
\* whose customerId is empty, whose advertiser or subject is empty or too
\* long, or whose notes are too long.
C11_InvalidRequestsRejected ==
  [][\A request \in FieldSamples :
       (CreateFirst(request) /\ OutsideFieldRules(request))
         => Failed(DATA_INVALID)]_vars

\* ============================================================== references
\* C12 as stated: createInvoice and updateInvoice write a customerId into a
\* header row only after finding the customer row it identifies, so every
\* stored invoice's customerId identifies an existing customer.
C12_CustomerIdsExist ==
  \A i \in 1..Len(invoiceSheet) :
    CustomerFindById(customerSheet, invoiceSheet[i].customerId) # Null

\* =============================================================== numbering
\* the sequence numbers of the header rows that carry the prefix followed
\* by exactly three digits
SuffixesUnder(sheet, prefix) ==
  {ParseInt(SubSeq(sheet[i].invoiceNumber, Len(prefix) + 1, Len(prefix) + 3)) :
     i \in {j \in 1..Len(sheet) :
              /\ Len(sheet[j].invoiceNumber) = Len(prefix) + 3
              /\ SubSeq(sheet[j].invoiceNumber, 1, Len(prefix)) = prefix
              /\ \A d \in 1..3 : IsDigit(sheet[j].invoiceNumber[Len(prefix) + d])}}

\* C13: the number a successful createInvoice gives is the YYYYMM of the
\* current month, a hyphen, and a sequence number that is above every
\* three-digit sequence number stored under that prefix and is 1 or the
\* successor of one of them; with no row under the prefix it is 001,
\* whatever rows other months have left.
C13_MonthlySequence ==
  [][\A request \in InvoiceRequests :
       (CreateInvoice(request) /\ ret'.code = OK) =>
         LET number == ret'.value.invoiceNumber
             prefix == YearMonth(now) \o <<"-">>
             used == SuffixesUnder(invoiceSheet, prefix)
             n == ParseInt(SubSeq(number, Len(prefix) + 1, Len(number)))
         IN  /\ SubSeq(number, 1, Len(prefix)) = prefix
             /\ invoiceSheet'[Len(invoiceSheet')].invoiceNumber = number
             /\ \A m \in used : m < n
             /\ n = 1 \/ (n - 1) \in used
             /\ used = {} => number = prefix \o <<"0", "0", "1">>]_vars

\* the first invoice of January 2026, created over a row of December 2025
C13_Witness ==
  /\ ret.op = "createInvoice"
  /\ ret.code = OK
  /\ ret.value.invoiceNumber = <<"2", "0", "2", "6", "0", "1", "-", "0", "0", "1">>
  /\ \E i \in 1..Len(invoiceSheet) :
       SubSeq(invoiceSheet[i].invoiceNumber, 1, 6) = <<"2", "0", "2", "5", "1", "2">>

AllDigits(s, from, to) == \A i \in from..to : IsDigit(s[i])

\* C14 as stated: every identifier a successful creation returns has the
\* fixed width of its format: a customerId is C and exactly five digits, an
\* invoiceNumber is six digits, a hyphen and exactly three digits.
C14_FixedWidthIdentifiers ==
  /\ (ret.op = "createCustomer" /\ ret.code = OK) =>
       /\ Len(ret.value.customerId) = 6
       /\ ret.value.customerId[1] = "C"
       /\ AllDigits(ret.value.customerId, 2, 6)
  /\ (ret.op = "createInvoice" /\ ret.code = OK) =>
       /\ Len(ret.value.invoiceNumber) = 10
       /\ AllDigits(ret.value.invoiceNumber, 1, 6)
       /\ ret.value.invoiceNumber[7] = "-"
       /\ AllDigits(ret.value.invoiceNumber, 8, 10)

\* ================================================================ deletion
\* the rows of a sheet that do not carry invoice number k, in their order
RowsOfOthers(sheet, k) ==
  LET Other(row) == row.invoiceNumber # k
  IN  SelectSeq(sheet, Other)

\* C15: after a successful deleteInvoice of an invoice, however many
\* line-item rows it had and wherever they sat, no line-item row and no
\* header row carries its number, and the rows of the other invoices are
\* those that were there, in their order.
C15_DeleteCascade ==
  [][\A k \in Numbers(invoiceSheet) :
       (DeleteInvoice(k) /\ ret'.code = OK) =>
         /\ GetInvoiceItems(detailSheet', k) = <<>>
         /\ ~HasRow(invoiceSheet', k)
         /\ detailSheet' = RowsOfOthers(detailSheet, k)
         /\ invoiceSheet' = RowsOfOthers(invoiceSheet, k)]_vars

\* the first invoice had the first and third of four line-item rows
C15_Witness ==
  /\ ret.op = "deleteInvoice"
  /\ ret.code = OK
  /\ nCalls = 1
  /\ invoiceSheet = <<HeaderRow(SecondNumber)>>
  /\ detailSheet = <<ItemRowAt(SecondNumber, 2), ItemRowAt(SecondNumber, 4)>>

\* ============================================================ company names
\* one of the two names contains the other, letter case apart
NamesOverlap(existing, new) ==
  \/ Includes(ToLowerCase(existing), ToLowerCase(new))
  \/ Includes(ToLowerCase(new), ToLowerCase(existing))

\* C16: createCustomer with a valid request fails with CUSTOMER_DUPLICATE and
\* writes nothing exactly when the name of some stored row contains the new
\* name or the new name contains that name, letter case apart; every other
\* valid request is accepted.
C16_DuplicateExactlyOnOverlap ==
  [][\A request \in CustomerRequests :
       (CreateCustomer(request) /\ ~CustomerCreateRequestInvalid(request)) =>
         IF \E i \in 1..Len(customerSheet) :
              NamesOverlap(customerSheet[i].companyName, request.companyName)
         THEN Failed(CUSTOMER_DUPLICATE)
         ELSE ret'.code = OK]_vars

\* ========================================================= read after write
\* C17: right after a successful createCustomer, findById of the returned
\* customerId gives an entity equal field by field to the returned one; right
\* after a successful createInvoice, findByNumber of the returned number gives
\* the returned invoice with its one line item.
C17_ReadAfterWrite ==
  [][(nCalls' = nCalls + 1 /\ ret'.code = OK) =>
       /\ ret'.op = "createCustomer" =>
            CustomerFindById(customerSheet', ret'.value.customerId) = ret'.value
       /\ ret'.op = "createInvoice" =>
            FindByNumber(invoiceSheet', detailSheet', ret'.value.invoiceNumber)
              = ret'.value]_vars

\* ============================================================ update frame
\* the sheet differs from the one before at most in row i, and there at most
\* in the fields of the patch and updatedAt
OnlyPatched(before, after, i, request) ==
  /\ Len(after) = Len(before)
  /\ \A j \in 1..Len(before) : j # i => after[j] = before[j]
  /\ \A f \in DOMAIN before[i] :
       f \notin DOMAIN request \cup {"updatedAt"} => after[i][f] = before[i][f]

\* C18: a successful update of either repository changes only a row with the
\* given identifier, and there only the fields of the patch and updatedAt:
\* the identifier, the creation time and every line-item row stay as they
\* were, and so does every other row of every sheet.
C18_UpdateFrame ==
  [][/\ \A k \in InvoiceKeys(invoiceSheet, now) : \A request \in InvoiceRepoPatches :
          (RepoUpdateInvoice(k, request) /\ ret'.code = OK) =>
            /\ \E i \in 1..Len(invoiceSheet) :
                 /\ invoiceSheet[i].invoiceNumber = k
                 /\ OnlyPatched(invoiceSheet, invoiceSheet', i, request)
                 /\ invoiceSheet'[i].invoiceNumber = k
                 /\ invoiceSheet'[i].createdAt = invoiceSheet[i].createdAt
            /\ detailSheet' = detailSheet
            /\ customerSheet' = customerSheet
     /\ \A id \in CustomerKeys(customerSheet) : \A request \in CustomerRepoPatches :
          (RepoUpdateCustomer(id, request) /\ ret'.code = OK) =>
            /\ \E i \in 1..Len(customerSheet) :
                 /\ customerSheet[i].customerId = id
                 /\ OnlyPatched(customerSheet, customerSheet', i, request)
                 /\ customerSheet'[i].customerId = id
                 /\ customerSheet'[i].registeredAt = customerSheet[i].registeredAt
            /\ invoiceSheet' = invoiceSheet
            /\ detailSheet' = detailSheet]_vars

\* an invoice made at tick 0 was patched at tick 1 while another invoice is
\* stored
C18_Witness ==
  /\ ret.op = "InvoiceRepository.update"
  /\ ret.code = OK
  /\ Len(invoiceSheet) >= 2
  /\ \E i \in 1..Len(invoiceSheet) :
       /\ invoiceSheet[i].invoiceNumber = ret.value.invoiceNumber
       /\ invoiceSheet[i].status = ISSUED
       /\ invoiceSheet[i].createdAt = 0
       /\ invoiceSheet[i].updatedAt = 1

\* ========================================================= typed errors
\* C19: handle returns an error that is already typed as it is (same code,
\* context and isRetryable): a typed error thrown inside a repository method
\* leaves the repository catch and the classification of withRetry unchanged,
\* is the error withRetry throws when it gives up on it, and the caller of the
\* service gets the error withRetry threw, with the same code.
C19_TypedErrorsPassThrough ==
  [][/\ \A e \in TypedErrors :
          RepositoryThrows(e) =>
            /\ raised' = e
            /\ lastError' = e.err
            /\ rpc' = "done" => outcome' = [kind |-> "thrown", error |-> e.err]
     /\ ServiceCatch =>
          /\ ret'.value = outcome.error
          /\ ret'.code = outcome.error.code
          /\ ret'.value = raised.err]_vars

\* a retryable typed error thrown on each of the four attempts reached the
\* caller of the service as it was thrown
C19_Witness ==
  /\ ret.op = "InvoiceService"
  /\ ret.value = AppError(SPREADSHEET_ACCESS_ERROR, "InvoiceRepository", TRUE)
  /\ raised = ThrownApp(ret.value)
  /\ calls = MAX_RETRIES + 1
  /\ rpc = "idle"

\* ===================================================== headers and items
\* C20: whatever InvoiceService calls have run, every header row has exactly
\* one line-item row carrying its invoiceNumber, whose itemId is that number
\* followed by "-001", and every line-item row carries the invoiceNumber of a
\* header row.
C20_OneItemPerInvoice ==
  /\ \A i \in 1..Len(invoiceSheet) :
       LET number == invoiceSheet[i].invoiceNumber
           rows == {j \in 1..Len(detailSheet) : detailSheet[j].invoiceNumber = number}
       IN  /\ Cardinality(rows) = 1
           /\ \A j \in rows : detailSheet[j].itemId = number \o <<"-", "0", "0", "1">>
  /\ \A j \in 1..Len(detailSheet) : HasRow(invoiceSheet, detailSheet[j].invoiceNumber)

\* the seeded invoice was deleted after another one was created
C20_Witness ==
  /\ ret.op = "deleteInvoice"
  /\ ret.code = OK
  /\ Len(invoiceSheet) = 1
  /\ Len(detailSheet) = 1
  /\ invoiceSheet[1].invoiceNumber # SeedInvoice.sheet[1].invoiceNumber

\* ====================================================== concurrent creates
\* the calls of one repository that have returned an entity
Returned(op) ==
  {p \in DOMAIN procs : procs[p].op = op /\ procs[p].pc = "done" /\ procs[p].code = OK}

\* the highest number among the customer ids of the form C and five digits
MaxCustomerNumber(sheet) ==
  LET numbers == {IdNumber(sheet[i].customerId) :
                    i \in {j \in 1..Len(sheet) :
                             /\ Len(sheet[j].customerId) = 6
                             /\ AllDigits(sheet[j].customerId, 2, 6)}}
  IN  CHOOSE n \in numbers \cup {0} : \A m \in numbers : m <= n

\* the highest three-digit sequence number under the prefix of tick 0
MaxSequenceNumber(sheet) ==
  LET numbers == SuffixesUnder(sheet, YearMonth(0) \o <<"-">>)
  IN  CHOOSE n \in numbers \cup {0} : \A m \in numbers : m <= n

\* C21: the identifier a create call returns is the one after the maximum of
\* the rows the call read when it generated it, whatever the other call has
\* written since; so two calls that read the same maximum both return the
\* same identifier.  The second look of InvoiceRepository.create sees only
\* what was written before it: a call that returns has seen no row with its
\* number at that look.
C21_IdentifiersFromStaleMaximum ==
  /\ \A p, q \in Returned("CustomerRepository.create") :
       /\ procs[p].entity.customerId
            = <<"C">> \o PadStart(NumToStr(MaxCustomerNumber(procs[p].data) + 1), 5, "0")
       /\ MaxCustomerNumber(procs[p].data) = MaxCustomerNumber(procs[q].data)
            => procs[p].entity.customerId = procs[q].entity.customerId
  /\ \A p, q \in Returned("InvoiceRepository.create") :
       /\ procs[p].entity.invoiceNumber
            = YearMonth(0) \o <<"-">>
                \o PadStart(NumToStr(MaxSequenceNumber(procs[p].data) + 1), 3, "0")
       /\ ~HasRow(procs[p].seen, procs[p].entity.invoiceNumber)
       /\ MaxSequenceNumber(procs[p].data) = MaxSequenceNumber(procs[q].data)
            => procs[p].entity.invoiceNumber = procs[q].entity.invoiceNumber

\* both customer calls and both invoice calls have returned, the two
\* customers with one customerId and the two invoices with one invoiceNumber
C21_Witness ==
  /\ Returned("CustomerRepository.create") = {1, 2}
  /\ procs[1].entity.customerId = procs[2].entity.customerId
  /\ MaxCustomerNumber(procs[1].data) = MaxCustomerNumber(procs[2].data)
  /\ Returned("InvoiceRepository.create") = {3, 4}
  /\ procs[3].entity.invoiceNumber = procs[4].entity.invoiceNumber
  /\ MaxSequenceNumber(procs[3].data) = MaxSequenceNumber(procs[4].data)

\* ============================================================= status races
\* C22 as stated: also when two calls on an invoice run side by side, no step
\* takes its stored status from CANCELLED to DRAFT or ISSUED, or from ISSUED
\* to DRAFT.
C22_NoBackwardStatus ==
  [][\A k \in Numbers(invoiceSheet) :
       <<StatusOf(invoiceSheet, k), StatusOf(invoiceSheet', k)>>
         \notin {<<CANCELLED, DRAFT>>, <<CANCELLED, ISSUED>>, <<ISSUED, DRAFT>>}]_vars

\* ======================================================== order of a delete
\* C23: a step of InvoiceRepository.delete removes the header row of the
\* invoice only when no line-item row carries its number, and in every state
\* of the call, also when a failing sheet access has ended it or made
\* withRetry start it again, the line-item rows of the invoice have their
\* header row.
C23_ItemsBeforeHeader ==
  [][\A p \in DOMAIN procs :
       LET k == procs[p].id
       IN  /\ (HasRow(invoiceSheet, k) /\ ~HasRow(invoiceSheet', k))
                => GetInvoiceItems(detailSheet, k) = <<>>
           /\ GetInvoiceItems(detailSheet', k) # <<>> => HasRow(invoiceSheet', k)]_vars

\* the call was ended by an error that is not retried after it had removed
\* the first and the third of four line-item rows and before it removed the
\* header row
C23_Witness ==
  /\ procs[1].op = "InvoiceRepository.delete"
  /\ procs[1].pc = "done"
  /\ procs[1].code = SPREADSHEET_PERMISSION_ERROR
  /\ HasRow(invoiceSheet, FirstNumber)
  /\ detailSheet = <<ItemRowAt(SecondNumber, 2), ItemRowAt(SecondNumber, 4)>>


\* ======================================================== failed mutations
CheckFailures ==
  {DATA_INVALID, CUSTOMER_NOT_FOUND, INVOICE_NOT_FOUND, CUSTOMER_DUPLICATE,
   INVOICE_DUPLICATE, INVOICE_STATUS_ERROR}
Mutations ==
  {"createCustomer", "updateCustomer", "deleteCustomer", "createInvoice",
   "updateInvoice", "issueInvoice", "cancelInvoice", "deleteInvoice"}

C25_AtMostOneRowEach ==
  /\ Len(invoiceSheet) <= Len(<<HeaderRow(FirstNumber)>>) + 1
  /\ Len(detailSheet) <= Len(<<ItemRowAt(FirstNumber, 1)>>) + 1

\* ============================================================= lost rows
InSheet(sheet, row) == \E i \in 1..Len(sheet) : sheet[i] = row
AllReturned == \A p \in DOMAIN procs : procs[p].pc = "done"

\* C26: once the concurrent create calls have finished, every call that
\* returned an entity has its row in the sheet: the customer row of a
\* customer call, the header row and the line-item row of an invoice call
C26_EveryCreatedRowStays ==
  AllReturned =>
    /\ \A p \in Returned("CustomerRepository.create") :
         InSheet(customerSheet, CustomerToRowData(procs[p].entity))
    /\ \A p \in Returned("InvoiceRepository.create") :
         /\ InSheet(invoiceSheet, InvoiceToRowData(procs[p].entity))
         /\ InSheet(detailSheet, ItemToRowData(procs[p].entity.items[1]))

\* ======================================================== numbers over time
\* C27: an invoice number that a successful createInvoice returned is not
\* returned by a later createInvoice, also when the earlier invoice was
\* deleted in between
C27_NumberNeverReturnedAgain ==
  \A i, j \in DOMAIN procs : i # j => procs[i] # procs[j]

\* ===================================================== names after updates
\* C28: no two stored customers have company names that are equal when
\* compared without regard to case
C28_NoEqualCompanyNames ==
  \A i, j \in 1..Len(customerSheet) :
    i # j => ToLowerCase(customerSheet[i].companyName)
               # ToLowerCase(customerSheet[j].companyName)

\* ========================================================= stored amounts
\* C29: every header row has subtotal + taxAmount = totalAmount, and its
\* totalAmount is the amount of the line-item row of its invoice number
C29_HeaderAmountsAgree ==
  \A i \in 1..Len(invoiceSheet) :
    /\ invoiceSheet[i].subtotal + invoiceSheet[i].taxAmount
         = invoiceSheet[i].totalAmount
    /\ \A j \in 1..Len(detailSheet) :
         detailSheet[j].invoiceNumber = invoiceSheet[i].invoiceNumber
           => detailSheet[j].amount = invoiceSheet[i].totalAmount

\* ============================================================ nested retries
\* C30: within one public repository call the sheet read of the innermost
\* method is attempted at most maxRetries + 1 times
C30_ReadsWithinOneBudget == calls <= MAX_RETRIES + 1
====
